---- MODULE Spec2Model ----
(***************************************************************************)
(* Model of the deep-diff engine: the recursive differencer                *)
(* (src/src/diff.ts), the record constructors (src/src/types.ts), the path *)
(* utilities (src/src/utils.ts) and the patch engine (apply.ts).           *)
(*                                                                         *)
(* JavaScript values are modelled as tagged records [t, v].  The tag is    *)
(* the model's own discriminator: realTypeOf and typeOf compute the        *)
(* strings the program sees.  A mapping keeps its entries in insertion     *)
(* order (Object.keys order), a sequence is a TLA+ sequence, a hole in a   *)
(* sequence reads as undefined.  A cyclic value is a tree with back edges: *)
(* Ref(k) stands for a reference to the container k levels above the slot  *)
(* that holds it, and the identity of a container is its location in the   *)
(* root it belongs to.                                                     *)
(***************************************************************************)
EXTENDS Integers, Sequences, FiniteSets, TLC

----------------------------------------------------------------------------
(* Values *)

Undefined == [t |-> "undefined", v |-> 0]
Null == [t |-> "null", v |-> 0]
Bool(b) == [t |-> "boolean", v |-> b]
Num(n) == [t |-> "number", v |-> n]
NaN == [t |-> "nan", v |-> 0]
Str(s) == [t |-> "string", v |-> s]
DateV(ms) == [t |-> "date", v |-> ms]
InvalidDate == [t |-> "invalidDate", v |-> 0]
RegExpV(src) == [t |-> "regexp", v |-> src]
Arr(items) == [t |-> "array", v |-> items]
Obj(entries) == [t |-> "object", v |-> entries]
Ref(k) == [t |-> "ref", v |-> k]
Entry(k, x) == [k |-> k, val |-> x]

(* Path segments: a mapping key (string) or a sequence index (number). *)
Key(s) == [isNum |-> FALSE, s |-> s, n |-> 0]
Idx(i) == [isNum |-> TRUE, s |-> "", n |-> i]

(* Optional fields of a record: absent, or present with a value. *)
None == [has |-> FALSE, val |-> <<>>]
Some(x) == [has |-> TRUE, val |-> x]

IsContainer(x) == x.t \in {"array", "object"}

(* Object.keys(x) of a mapping, in insertion order. *)
ObjectKeys(x) == IF x.t = "object" THEN [i \in 1..Len(x.v) |-> x.v[i].k] ELSE <<>>

HasKey(x, k) == x.t = "object" /\ \E i \in 1..Len(x.v) : x.v[i].k = k

(* x[k] for a mapping x: the value under k, undefined when the key is absent *)
GetKey(x, k) ==
  IF HasKey(x, k) THEN x.v[CHOOSE i \in 1..Len(x.v) : x.v[i].k = k].val ELSE Undefined

(* x[i] for a sequence x (0-based): undefined outside the bounds *)
GetIdx(x, i) ==
  IF x.t = "array" /\ i >= 0 /\ i < Len(x.v) THEN x.v[i + 1] ELSE Undefined

(* current[key] as JavaScript evaluates it on a container *)
GetProp(x, seg) ==
  IF x.t = "array" /\ seg.isNum THEN GetIdx(x, seg.n)
  ELSE IF x.t = "object" /\ ~seg.isNum THEN GetKey(x, seg.s)
  ELSE Undefined

RECURSIVE At(_, _)
(* the value stored at a tree location of root (no back edge is followed) *)
At(root, loc) ==
  IF Len(loc) = 0 THEN root ELSE At(GetProp(root, Head(loc)), Tail(loc))

RECURSIVE HasRef(_)
(* does the term contain a back edge, i.e. is the value cyclic *)
HasRef(x) ==
  CASE x.t = "ref" -> TRUE
    [] x.t = "array" -> \E i \in 1..Len(x.v) : HasRef(x.v[i])
    [] x.t = "object" -> \E i \in 1..Len(x.v) : HasRef(x.v[i].val)
    [] OTHER -> FALSE

RECURSIVE DeepEqual(_, _)
(* deep equality of two acyclic values: same type, same leaves, same key   *)
(* sets (insertion order ignored), same sequence lengths                   *)
DeepEqual(x, y) ==
  IF x.t # y.t THEN FALSE
  ELSE CASE x.t = "array" ->
              /\ Len(x.v) = Len(y.v)
              /\ \A i \in 1..Len(x.v) : DeepEqual(x.v[i], y.v[i])
         [] x.t = "object" ->
              /\ Len(x.v) = Len(y.v)
              /\ \A i \in 1..Len(x.v) :
                    /\ HasKey(y, x.v[i].k)
                    /\ DeepEqual(x.v[i].val, GetKey(y, x.v[i].k))
         [] OTHER -> x = y

----------------------------------------------------------------------------
(* Value classifier *)

(* the host's typeof *)
typeOf(x) ==
  CASE x.t \in {"null", "array", "date", "invalidDate", "regexp", "object", "ref"} -> "object"
    [] x.t = "nan" -> "number"
    [] OTHER -> x.t

realTypeOf_typeofOnly(subject) == typeOf(subject)

(* realTypeOf(subject); the Math singleton is not a value of the model *)
realTypeOf(subject) ==
  IF typeOf(subject) # "object" THEN typeOf(subject)
  ELSE IF subject.t = "null" THEN "null"
  ELSE IF subject.t = "array" THEN "array"
  ELSE IF subject.t \in {"date", "invalidDate"} THEN "date"
  ELSE IF subject.t = "regexp" THEN "regexp"
  ELSE "object"

(* lhs.getTime() !== rhs.getTime() on two timestamps: the time of an       *)
(* invalid date is NaN, which differs from every number and from itself    *)
getTimeDiffers(x, y) == x.t = "invalidDate" \/ y.t = "invalidDate" \/ x.v # y.v

(* lhs !== rhs on two values that are not containers *)
StrictNotEqual(x, y) == x # y \/ x.t = "nan"

----------------------------------------------------------------------------
(* Difference records (types.ts) *)

NoItem == [has |-> FALSE, kind |-> "", lhs |-> Undefined, rhs |-> Undefined, dates |-> None]

(* new DiffNewItem(value, datePaths) *)
DiffNewItem(value, datePaths) ==
  [has |-> TRUE, kind |-> "N", lhs |-> Undefined, rhs |-> value,
   dates |-> IF datePaths.has /\ Len(datePaths.val) > 0 THEN Some(datePaths.val) ELSE None]

(* new DiffDeletedItem(value, datePaths) *)
DiffDeletedItem(value, datePaths) ==
  [has |-> TRUE, kind |-> "D", lhs |-> value, rhs |-> Undefined,
   dates |-> IF datePaths.has /\ Len(datePaths.val) > 0 THEN Some(datePaths.val) ELSE None]

(* new DiffEdit(path, origin, value, datePaths) *)
DiffEdit(path, origin, value, datePaths) ==
  [kind |-> "E",
   path |-> IF Len(path) > 0 THEN Some(path) ELSE None,
   lhs |-> origin, rhs |-> value,
   hasIndex |-> FALSE, index |-> 0, item |-> NoItem,
   dates |-> IF datePaths.has /\ Len(datePaths.val) > 0 THEN Some(datePaths.val) ELSE None]

(* new DiffNew(path, value, datePaths) *)
DiffNew(path, value, datePaths) ==
  [kind |-> "N",
   path |-> IF Len(path) > 0 THEN Some(path) ELSE None,
   lhs |-> Undefined, rhs |-> value,
   hasIndex |-> FALSE, index |-> 0, item |-> NoItem,
   dates |-> IF datePaths.has /\ Len(datePaths.val) > 0 THEN Some(datePaths.val) ELSE None]

(* new DiffDeleted(path, value, datePaths) *)
DiffDeleted(path, value, datePaths) ==
  [kind |-> "D",
   path |-> IF Len(path) > 0 THEN Some(path) ELSE None,
   lhs |-> value, rhs |-> Undefined,
   hasIndex |-> FALSE, index |-> 0, item |-> NoItem,
   dates |-> IF datePaths.has /\ Len(datePaths.val) > 0 THEN Some(datePaths.val) ELSE None]

(* new DiffArray(path, index, item): the item's $dates are lifted onto the *)
(* record, each path prefixed with 'item', and deleted from the item       *)
DiffArray(path, index, item) ==
  LET lift == item.dates.has /\ Len(item.dates.val) > 0
  IN [kind |-> "A",
      path |-> IF Len(path) > 0 THEN Some(path) ELSE None,
      lhs |-> Undefined, rhs |-> Undefined,
      hasIndex |-> TRUE, index |-> index,
      item |-> IF lift THEN [item EXCEPT !.dates = None] ELSE item,
      dates |-> IF lift
                THEN Some([i \in 1..Len(item.dates.val) |-> <<Key("item")>> \o item.dates.val[i]])
                ELSE None]

isDiffArray(d) == d.kind = "A"
isDiffEdit(d) == d.kind = "E"
isDiffNew(d) == d.kind = "N"
isDiffDeleted(d) == d.kind = "D"
isDiffDeletedItem(d) == d.kind = "D"

----------------------------------------------------------------------------
(* Differencer (diff.ts) *)

RECURSIVE collect(_, _), collectChildren(_, _, _)
(* collect(val, path) of collectDatePaths.  The recursion has no cycle     *)
(* guard: a back edge leads to a container that is an ancestor of (or is)  *)
(* the value being walked, whose traversal reaches the same back edge      *)
(* again, so the recursion never returns and the call stack overflows      *)
(* (RangeError).  overflow records that outcome.                           *)
collect(val, path) ==
  CASE val.t \in {"date", "invalidDate"} -> [paths |-> <<path>>, overflow |-> FALSE]
    [] val.t = "ref" -> [paths |-> <<>>, overflow |-> TRUE]
    [] val.t \in {"array", "object"} -> collectChildren(val, path, 1)
    [] OTHER -> [paths |-> <<>>, overflow |-> FALSE]

collectChildren(val, path, i) ==
  IF i > Len(val.v) THEN [paths |-> <<>>, overflow |-> FALSE]
  ELSE LET seg == IF val.t = "array" THEN Idx(i - 1) ELSE Key(val.v[i].k)
           child == IF val.t = "array" THEN val.v[i] ELSE val.v[i].val
           first == collect(child, path \o <<seg>>)
       IN IF first.overflow THEN first
          ELSE LET rest == collectChildren(val, path, i + 1)
               IN [paths |-> first.paths \o rest.paths, overflow |-> rest.overflow]

collectDatePaths_shallow(value, basePath) ==
  [paths |-> IF value.t \in {"date", "invalidDate"} THEN <<basePath>> ELSE <<>>,
   overflow |-> FALSE]

(* collectDatePaths(value, basePath): the paths of the Date values inside *)
collectDatePaths(value, basePath) == collect(value, basePath)

combineDatePaths(lhsPaths, rhsPaths) ==
  LET combined == lhsPaths \o rhsPaths
  IN IF Len(combined) > 0 THEN Some(combined) ELSE None

NoDiffs == [recs |-> <<>>, overflow |-> FALSE]
Thrown == [recs |-> <<>>, overflow |-> TRUE]

(* accum.push of the records of a, then those of b; an exception in a      *)
(* propagates and b is never run                                           *)
Then(a, b) ==
  IF a.overflow THEN Thrown
  ELSE IF b.overflow THEN Thrown
  ELSE [recs |-> a.recs \o b.recs, overflow |-> FALSE]

(* An argument of collectDiffs: the value, and for a container its         *)
(* identity, the location of the container in the root it belongs to.      *)
Arg(val, loc) == [val |-> val, loc |-> loc]
Absent == Arg(Undefined, <<>>)

(* container[seg], following a back edge to the container it refers to *)
Child(root, ploc, seg) ==
  LET loc == ploc \o <<seg>>
      raw == At(root, loc)
  IN IF raw.t = "ref"
     THEN LET c == SubSeq(loc, 1, Len(loc) - raw.v) IN Arg(At(root, c), c)
     ELSE Arg(raw, loc)

bothNaN_never(x, y) == FALSE

(* Number.isNaN(lhsCompare) && Number.isNaN(rhsCompare) *)
bothNaN(x, y) == x.t = "nan" /\ y.t = "nan"

stackIncludes_anyOpen(stack, loc) == Len(stack) > 0

(* stack.includes(lhsCompare): is the container one of the open ancestors *)
stackIncludes(stack, loc) == \E i \in 1..Len(stack) : stack[i] = loc

RECURSIVE collectDiffs(_, _, _, _, _, _)
RECURSIVE arrayLoop(_, _, _, _, _, _, _)
RECURSIVE lhsKeysLoop(_, _, _, _, _, _, _)
RECURSIVE rhsKeysLoop(_, _, _, _, _, _, _)

(* collectDiffs(lhs, rhs, accum, path, key, stack); currentPath is path    *)
(* extended by key, L and R are the roots the two arguments live in, stack *)
(* holds the identities of the open lhs ancestors                          *)
collectDiffs(L, R, l, r, currentPath, stack) ==
  LET lhs == l.val
      rhs == r.val
      lhsType == realTypeOf(lhs)
      rhsType == realTypeOf(rhs)
      bothRegexp == lhsType = "regexp" /\ rhsType = "regexp"
      lhsCompare == IF bothRegexp THEN Str(lhs.v) ELSE lhs
      rhsCompare == IF bothRegexp THEN Str(rhs.v) ELSE rhs
      ltype == typeOf(lhsCompare)
      rtype == typeOf(rhsCompare)
      lhsDates == collectDatePaths(lhs, <<Key("lhs")>>)
      rhsDates == collectDatePaths(rhs, <<Key("rhs")>>)
      edit == IF lhsDates.overflow \/ rhsDates.overflow THEN Thrown
              ELSE [recs |-> <<DiffEdit(currentPath, lhs, rhs,
                                        combineDatePaths(lhsDates.paths, rhsDates.paths))>>,
                    overflow |-> FALSE]
  IN IF ltype = "undefined" THEN
       IF rtype # "undefined" THEN
         IF rhsDates.overflow THEN Thrown
         ELSE [recs |-> <<DiffNew(currentPath, rhs, Some(rhsDates.paths))>>, overflow |-> FALSE]
       ELSE NoDiffs
     ELSE IF rtype = "undefined" THEN
       IF lhsDates.overflow THEN Thrown
       ELSE [recs |-> <<DiffDeleted(currentPath, lhs, Some(lhsDates.paths))>>, overflow |-> FALSE]
     ELSE IF lhsType # rhsType THEN edit
     ELSE IF lhsType = "date" /\ getTimeDiffers(lhsCompare, rhsCompare) THEN
       [recs |-> <<DiffEdit(currentPath, lhs, rhs, Some(<< <<Key("lhs")>>, <<Key("rhs")>> >>))>>,
        overflow |-> FALSE]
     ELSE IF ltype = "object" /\ lhsCompare.t # "null" /\ rhsCompare.t # "null" THEN
       IF stackIncludes(stack, l.loc) THEN NoDiffs
       ELSE IF lhsCompare.t = "array"
            THEN arrayLoop(L, R, l, r, currentPath, Append(stack, l.loc), 0)
            ELSE lhsKeysLoop(L, R, l, r, currentPath, Append(stack, l.loc), 1)
     ELSE IF StrictNotEqual(lhsCompare, rhsCompare) THEN
       IF ~(ltype = "number" /\ bothNaN(lhsCompare, rhsCompare)) THEN edit
       ELSE NoDiffs
     ELSE NoDiffs

RECURSIVE arrayLoop_offByOne(_, _, _, _, _, _, _)
arrayLoop_offByOne(L, R, l, r, currentPath, stack, i) ==
  LET len == Len(l.val.v)
      rlen == Len(r.val.v)
  IN IF i < len THEN
       LET step ==
             IF i > rlen THEN
               LET dp == collectDatePaths(l.val.v[i + 1], <<Key("lhs")>>)
               IN IF dp.overflow THEN Thrown
                  ELSE [recs |-> <<DiffArray(currentPath, i,
                                     DiffDeletedItem(l.val.v[i + 1], Some(dp.paths)))>>,
                        overflow |-> FALSE]
             ELSE collectDiffs(L, R, Child(L, l.loc, Idx(i)),
                               IF i < rlen THEN Child(R, r.loc, Idx(i)) ELSE Absent,
                               currentPath \o <<Idx(i)>>, stack)
       IN IF step.overflow THEN Thrown
          ELSE Then(step, arrayLoop_offByOne(L, R, l, r, currentPath, stack, i + 1))
     ELSE IF i < rlen THEN
       LET dp == collectDatePaths(r.val.v[i + 1], <<Key("rhs")>>)
       IN IF dp.overflow THEN Thrown
          ELSE Then([recs |-> <<DiffArray(currentPath, i,
                                  DiffNewItem(r.val.v[i + 1], Some(dp.paths)))>>,
                     overflow |-> FALSE],
                    arrayLoop_offByOne(L, R, l, r, currentPath, stack, i + 1))
     ELSE NoDiffs

(* the two loops of the array branch, from index i on *)
arrayLoop(L, R, l, r, currentPath, stack, i) ==
  LET len == Len(l.val.v)
      rlen == Len(r.val.v)
  IN IF i < len THEN
       LET step ==
             IF i >= rlen THEN
               LET dp == collectDatePaths(l.val.v[i + 1], <<Key("lhs")>>)
               IN IF dp.overflow THEN Thrown
                  ELSE [recs |-> <<DiffArray(currentPath, i,
                                     DiffDeletedItem(l.val.v[i + 1], Some(dp.paths)))>>,
                        overflow |-> FALSE]
             ELSE collectDiffs(L, R, Child(L, l.loc, Idx(i)), Child(R, r.loc, Idx(i)),
                               currentPath \o <<Idx(i)>>, stack)
       IN IF step.overflow THEN Thrown
          ELSE Then(step, arrayLoop(L, R, l, r, currentPath, stack, i + 1))
     ELSE IF i < rlen THEN
       LET dp == collectDatePaths(r.val.v[i + 1], <<Key("rhs")>>)
       IN IF dp.overflow THEN Thrown
          ELSE Then([recs |-> <<DiffArray(currentPath, i,
                                  DiffNewItem(r.val.v[i + 1], Some(dp.paths)))>>,
                     overflow |-> FALSE],
                    arrayLoop(L, R, l, r, currentPath, stack, i + 1))
     ELSE NoDiffs

(* for (const k of lhsKeys), from the i-th key on, then the keys left in   *)
(* rhsKeySet                                                               *)
lhsKeysLoop(L, R, l, r, currentPath, stack, i) ==
  LET lhsKeys == ObjectKeys(l.val)
  IN IF i > Len(lhsKeys) THEN rhsKeysLoop(L, R, l, r, currentPath, stack, 1)
     ELSE LET k == lhsKeys[i]
              step == IF HasKey(r.val, k)
                      THEN collectDiffs(L, R, Child(L, l.loc, Key(k)), Child(R, r.loc, Key(k)),
                                        currentPath \o <<Key(k)>>, stack)
                      ELSE collectDiffs(L, R, Child(L, l.loc, Key(k)), Absent,
                                        currentPath \o <<Key(k)>>, stack)
          IN IF step.overflow THEN Thrown
             ELSE Then(step, lhsKeysLoop(L, R, l, r, currentPath, stack, i + 1))

RECURSIVE rhsKeysLoop_keepsAll(_, _, _, _, _, _, _)
rhsKeysLoop_keepsAll(L, R, l, r, currentPath, stack, i) ==
  LET rhsKeys == ObjectKeys(r.val)
  IN IF i > Len(rhsKeys) THEN NoDiffs
     ELSE LET k == rhsKeys[i]
              step == collectDiffs(L, R, Absent, Child(R, r.loc, Key(k)),
                                   currentPath \o <<Key(k)>>, stack)
          IN IF step.overflow THEN Thrown
             ELSE Then(step, rhsKeysLoop_keepsAll(L, R, l, r, currentPath, stack, i + 1))

(* for (const k of rhsKeySet): the keys of rhs that lhs does not have *)
rhsKeysLoop(L, R, l, r, currentPath, stack, i) ==
  LET rhsKeys == ObjectKeys(r.val)
  IN IF i > Len(rhsKeys) THEN NoDiffs
     ELSE LET k == rhsKeys[i]
              step == IF HasKey(l.val, k) THEN NoDiffs
                      ELSE collectDiffs(L, R, Absent, Child(R, r.loc, Key(k)),
                                        currentPath \o <<Key(k)>>, stack)
          IN IF step.overflow THEN Thrown
             ELSE Then(step, rhsKeysLoop(L, R, l, r, currentPath, stack, i + 1))

diff_emptyList(lhs, rhs) ==
  LET accum == collectDiffs(lhs, rhs, Arg(lhs, <<>>), Arg(rhs, <<>>), <<>>, <<>>)
  IN [threw |-> accum.overflow, result |-> IF accum.overflow THEN None ELSE Some(accum.recs)]

(* diff(lhs, rhs): the records, absent (None) when there are none, or the  *)
(* RangeError of an unbounded recursion                                    *)
diff(lhs, rhs) ==
  LET accum == collectDiffs(lhs, rhs, Arg(lhs, <<>>), Arg(rhs, <<>>), <<>>, <<>>)
  IN IF accum.overflow THEN [threw |-> TRUE, result |-> None]
     ELSE [threw |-> FALSE,
           result |-> IF Len(accum.recs) > 0 THEN Some(accum.recs) ELSE None]

----------------------------------------------------------------------------
(* Container primitives of the host language, on tree values *)

Min(a, b) == IF a < b THEN a ELSE b

(* container[seg] = x: a key keeps its place or is appended; an index past *)
(* the end of a sequence leaves holes in between                           *)
SetProp(c, seg, x) ==
  IF c.t = "object" THEN
    LET k == IF seg.isNum THEN ToString(seg.n) ELSE seg.s
    IN IF HasKey(c, k)
       THEN Obj([i \in 1..Len(c.v) |-> IF c.v[i].k = k THEN Entry(k, x) ELSE c.v[i]])
       ELSE Obj(Append(c.v, Entry(k, x)))
  ELSE IF c.t = "array" /\ seg.isNum /\ seg.n >= 0 THEN
    IF seg.n < Len(c.v)
    THEN Arr([i \in 1..Len(c.v) |-> IF i = seg.n + 1 THEN x ELSE c.v[i]])
    ELSE Arr([i \in 1..(seg.n + 1) |->
                IF i <= Len(c.v) THEN c.v[i] ELSE IF i = seg.n + 1 THEN x ELSE Undefined])
  ELSE c

(* delete container[seg]: removes a key; leaves a hole in a sequence *)
DeleteProp(c, seg) ==
  IF c.t = "object" THEN
    LET k == IF seg.isNum THEN ToString(seg.n) ELSE seg.s
        keep == {i \in 1..Len(c.v) : c.v[i].k # k}
        pos(j) == CHOOSE i \in keep : Cardinality({h \in keep : h < i}) = j - 1
    IN Obj([j \in 1..Cardinality(keep) |-> c.v[pos(j)]])
  ELSE IF c.t = "array" /\ seg.isNum /\ seg.n >= 0 /\ seg.n < Len(c.v) THEN
    Arr([i \in 1..Len(c.v) |-> IF i = seg.n + 1 THEN Undefined ELSE c.v[i]])
  ELSE c

RECURSIVE SetAt(_, _, _)
(* the root after the container slot at loc has been assigned x in place *)
SetAt(root, loc, x) ==
  IF Len(loc) = 0 THEN x
  ELSE SetProp(root, Head(loc), SetAt(GetProp(root, Head(loc)), Tail(loc), x))

----------------------------------------------------------------------------
(* utils.ts *)

(* arrayRemove(arr, from) on the elements of a sequence.                   *)
(*   rest = arr.slice(from + 1 || arr.length)                              *)
(*   arr.length = from < 0 ? arr.length + from : from                      *)
(*   arr.push(...rest)                                                     *)
(* Setting length above the current length pads the sequence with holes.   *)
arrayRemove(items, from) ==
  LET n == Len(items)
      start == IF from + 1 = 0 THEN n
               ELSE IF from + 1 < 0 THEN (IF n + from + 1 < 0 THEN 0 ELSE n + from + 1)
               ELSE Min(from + 1, n)
      rest == SubSeq(items, start + 1, n)
      newLen == IF from < 0 THEN n + from ELSE from
      cut == [i \in 1..newLen |-> IF i <= n THEN items[i] ELSE Undefined]
  IN cut \o rest

TraverseError(code, root) ==
  [ok |-> FALSE, error |-> code, target |-> root, loc |-> <<>>, key |-> Key("")]

RECURSIVE traverseFrom_keyedByCurrent(_, _, _, _, _)
traverseFrom_keyedByCurrent(root, path, createMissing, i, loc) ==
  IF i >= Len(path) THEN
    [ok |-> TRUE, error |-> "none", target |-> root, loc |-> loc, key |-> path[Len(path)]]
  ELSE
    LET key == path[i]
        value == GetProp(At(root, loc), key)
    IN IF value.t \in {"undefined", "null"} THEN
         IF ~createMissing THEN TraverseError("INVALID_PATH", root)
         ELSE traverseFrom_keyedByCurrent(SetAt(root, loc \o <<key>>,
                                                IF key.isNum THEN Arr(<<>>) ELSE Obj(<<>>)),
                                          path, createMissing, i + 1, loc \o <<key>>)
       ELSE IF typeOf(value) # "object" THEN TraverseError("NOT_OBJECT", root)
       ELSE traverseFrom_keyedByCurrent(root, path, createMissing, i + 1, loc \o <<key>>)

RECURSIVE traverseFrom_mappingsOnly(_, _, _, _, _)
traverseFrom_mappingsOnly(root, path, createMissing, i, loc) ==
  IF i >= Len(path) THEN
    [ok |-> TRUE, error |-> "none", target |-> root, loc |-> loc, key |-> path[Len(path)]]
  ELSE
    LET key == path[i]
        value == GetProp(At(root, loc), key)
    IN IF value.t \in {"undefined", "null"} THEN
         IF ~createMissing THEN TraverseError("INVALID_PATH", root)
         ELSE traverseFrom_mappingsOnly(SetAt(root, loc \o <<key>>, Obj(<<>>)),
                                        path, createMissing, i + 1, loc \o <<key>>)
       ELSE IF typeOf(value) # "object" THEN TraverseError("NOT_OBJECT", root)
       ELSE traverseFrom_mappingsOnly(root, path, createMissing, i + 1, loc \o <<key>>)

RECURSIVE traverseFrom(_, _, _, _, _)
(* the for loop of traversePath from position i (1-based) on; loc is the   *)
(* location of current in root                                             *)
traverseFrom(root, path, createMissing, i, loc) ==
  IF i >= Len(path) THEN
    [ok |-> TRUE, error |-> "none", target |-> root, loc |-> loc, key |-> path[Len(path)]]
  ELSE
    LET key == path[i]
        nextKey == path[i + 1]
        value == GetProp(At(root, loc), key)
    IN IF value.t \in {"undefined", "null"} THEN
         IF ~createMissing THEN TraverseError("INVALID_PATH", root)
         ELSE traverseFrom(SetAt(root, loc \o <<key>>,
                                 IF nextKey.isNum THEN Arr(<<>>) ELSE Obj(<<>>)),
                           path, createMissing, i + 1, loc \o <<key>>)
       ELSE IF typeOf(value) # "object" THEN TraverseError("NOT_OBJECT", root)
       ELSE traverseFrom(root, path, createMissing, i + 1, loc \o <<key>>)

(* traversePath(target, path, createMissing); path is the optional field   *)
traversePath(target, path, createMissing) ==
  IF ~path.has \/ Len(path.val) = 0 THEN TraverseError("EMPTY_PATH", target)
  ELSE traverseFrom(target, path.val, createMissing, 1, <<>>)

assertTarget_nullOnly(target) ==
  IF target.t \in {"null", "undefined"} THEN "INVALID_TARGET" ELSE "none"

(* assertTarget: the error code thrown, "none" when the target passes *)
assertTarget(target) ==
  IF target.t \in {"null", "undefined"} THEN "INVALID_TARGET"
  ELSE IF typeOf(target) # "object" THEN "INVALID_TARGET"
  ELSE "none"

assertValidChange_kindOnly(change) ==
  IF change.kind \notin {"N", "D", "E", "A"} THEN "INVALID_CHANGE" ELSE "none"

(* assertValidChange: the error code thrown, "none" when the record passes *)
assertValidChange(change) ==
  IF change.kind \notin {"N", "D", "E", "A"} THEN "INVALID_CHANGE"
  ELSE IF change.kind = "A" /\ ~change.hasIndex THEN "INVALID_CHANGE"
  ELSE IF change.kind = "A" /\ ~change.item.has THEN "INVALID_CHANGE"
  ELSE "none"

----------------------------------------------------------------------------
(* Timestamps and text *)

(* Date.prototype.toISOString for the instants of the model *)
toISOString(ms) == "1970-01-01T00:00:00.00" \o ToString(ms) \o "Z"

IsoInstants == 0..9

(* new Date(x) *)
NewDate(x) ==
  CASE x.t = "string" ->
         IF \E ms \in IsoInstants : toISOString(ms) = x.v
         THEN DateV(CHOOSE ms \in IsoInstants : toISOString(ms) = x.v)
         ELSE InvalidDate
    [] x.t = "date" -> x
    [] x.t = "number" -> DateV(x.v)
    [] x.t = "null" -> DateV(0)
    [] x.t = "boolean" -> DateV(IF x.v THEN 1 ELSE 0)
    [] OTHER -> InvalidDate

----------------------------------------------------------------------------
(* Patch engine (apply.ts) *)

Ok(x) == [value |-> x, error |-> "none"]
Fail(x, code) == [value |-> x, error |-> code]

RECURSIVE restoreFrom(_, _, _, _)
(* the loop of restoreDates from the i-th marker path on.  Reading a       *)
(* property of undefined or null, or writing one on a primitive (module    *)
(* code is strict), throws a TypeError.                                    *)
restoreFrom(value, datePaths, prefix, i) ==
  IF i > Len(datePaths) THEN Ok(value)
  ELSE LET path == datePaths[i]
       IN IF Len(path) = 0 \/ path[1] # Key(prefix)
          THEN restoreFrom(value, datePaths, prefix, i + 1)
          ELSE IF Len(path) = 1 THEN Ok(NewDate(value))
          ELSE LET restPath == Tail(path)
                   holder == SubSeq(restPath, 1, Len(restPath) - 1)
                   reachable == \A j \in 0..Len(holder) :
                                   IsContainer(At(value, SubSeq(holder, 1, j)))
               IN IF ~reachable THEN Fail(value, "TypeError")
                  ELSE restoreFrom(SetAt(value, restPath, NewDate(At(value, restPath))),
                                   datePaths, prefix, i + 1)

restoreDates_anySide(value, datePaths, prefix) ==
  restoreFrom(value,
              [i \in 1..Len(datePaths) |->
                 IF Len(datePaths[i]) = 0 THEN <<>> ELSE <<Key(prefix)>> \o Tail(datePaths[i])],
              prefix, 1)

(* restoreDates(value, datePaths, prefix) *)
restoreDates(value, datePaths, prefix) == restoreFrom(value, datePaths, prefix, 1)

(* getApplyValue(change, field) *)
getApplyValue(change, field) ==
  LET value == IF field = "rhs" THEN change.rhs ELSE change.lhs
  IN IF change.dates.has /\ Len(change.dates.val) > 0
     THEN restoreDates(value, change.dates.val, field)
     ELSE Ok(value)

(* the marker paths ['item', side, ...] with the leading 'item' removed *)
ItemPaths(datePaths, side) ==
  LET sel == SelectSeq(datePaths,
                       LAMBDA q : Len(q) >= 2 /\ q[1] = Key("item") /\ q[2] = Key(side))
  IN [i \in 1..Len(sel) |-> Tail(sel[i])]

(* arr[index] = value *)
AssignIndex(arr, index, value) ==
  IF ~IsContainer(arr) /\ arr.t \notin {"date", "invalidDate", "regexp"}
  THEN Fail(arr, "TypeError")
  ELSE Ok(SetProp(arr, Idx(index), value))

(* arrayRemove(arr, index) on whatever the path led to *)
RemoveIndex(arr, index) ==
  IF arr.t # "array" THEN Fail(arr, "TypeError")
  ELSE Ok(Arr(arrayRemove(arr.v, index)))

(* applyArrayChange(arr, index, item, datePaths) *)
applyArrayChange(arr, index, item, datePaths) ==
  IF isDiffDeletedItem(item) THEN RemoveIndex(arr, index)
  ELSE LET rhsPaths == IF datePaths.has /\ Len(datePaths.val) > 0
                       THEN ItemPaths(datePaths.val, "rhs") ELSE <<>>
           value == IF Len(rhsPaths) > 0 THEN restoreDates(item.rhs, rhsPaths, "rhs")
                    ELSE Ok(item.rhs)
       IN IF value.error # "none" THEN Fail(arr, value.error)
          ELSE AssignIndex(arr, index, value.value)

revertArrayChange_leaveInserted(arr, index, item, datePaths) ==
  IF isDiffDeletedItem(item) THEN AssignIndex(arr, index, item.lhs) ELSE Ok(arr)

(* revertArrayChange(arr, index, item, datePaths) *)
revertArrayChange(arr, index, item, datePaths) ==
  IF isDiffDeletedItem(item) THEN
    LET lhsPaths == IF datePaths.has /\ Len(datePaths.val) > 0
                    THEN ItemPaths(datePaths.val, "lhs") ELSE <<>>
        value == IF Len(lhsPaths) > 0 THEN restoreDates(item.lhs, lhsPaths, "lhs")
                 ELSE Ok(item.lhs)
    IN IF value.error # "none" THEN Fail(arr, value.error)
       ELSE AssignIndex(arr, index, value.value)
  ELSE RemoveIndex(arr, index)

(* applyChange(target, _source, change): the target after the call and the *)
(* error thrown, "none" when the call returns                              *)
applyChange(target, change) ==
  IF assertTarget(target) # "none" THEN Fail(target, assertTarget(target))
  ELSE IF assertValidChange(change) # "none" THEN Fail(target, assertValidChange(change))
  ELSE IF ~change.path.has \/ Len(change.path.val) = 0 THEN
    IF isDiffArray(change)
    THEN applyArrayChange(target, change.index, change.item, change.dates)
    ELSE Ok(target)
  ELSE
    LET result == traversePath(target, change.path, TRUE)
        slot == result.loc \o <<result.key>>
        parent == At(result.target, result.loc)
    IN IF ~result.ok THEN Fail(result.target, result.error)
       ELSE IF isDiffArray(change) THEN
         LET r == applyArrayChange(GetProp(parent, result.key), change.index,
                                   change.item, change.dates)
         IN IF r.error # "none" THEN Fail(result.target, r.error)
            ELSE Ok(SetAt(result.target, slot, r.value))
       ELSE IF isDiffDeleted(change) THEN
         Ok(SetAt(result.target, result.loc, DeleteProp(parent, result.key)))
       ELSE
         LET r == getApplyValue(change, "rhs")
         IN IF r.error # "none" THEN Fail(result.target, r.error)
            ELSE Ok(SetAt(result.target, slot, r.value))

(* revertChange after its validation: the traversal and the write *)
revertAt(target, change) ==
  LET result == traversePath(target, change.path, TRUE)
      slot == result.loc \o <<result.key>>
      parent == At(result.target, result.loc)
  IN IF ~result.ok THEN Fail(result.target, result.error)
     ELSE IF isDiffArray(change) THEN
       LET r == revertArrayChange(GetProp(parent, result.key), change.index,
                                  change.item, change.dates)
       IN IF r.error # "none" THEN Fail(result.target, r.error)
          ELSE Ok(SetAt(result.target, slot, r.value))
     ELSE IF isDiffDeleted(change) \/ isDiffEdit(change) THEN
       LET r == getApplyValue(change, "lhs")
       IN IF r.error # "none" THEN Fail(result.target, r.error)
          ELSE Ok(SetAt(result.target, slot, r.value))
     ELSE
       Ok(SetAt(result.target, result.loc, DeleteProp(parent, result.key)))

revertChange_silentRoot(target, change) ==
  IF assertTarget(target) # "none" THEN Fail(target, assertTarget(target))
  ELSE IF assertValidChange(change) # "none" THEN Fail(target, assertValidChange(change))
  ELSE IF ~change.path.has \/ Len(change.path.val) = 0 THEN Ok(target)
  ELSE revertAt(target, change)

(* revertChange(target, _source, change) *)
revertChange(target, change) ==
  IF assertTarget(target) # "none" THEN Fail(target, assertTarget(target))
  ELSE IF assertValidChange(change) # "none" THEN Fail(target, assertValidChange(change))
  ELSE IF ~change.path.has \/ Len(change.path.val) = 0 THEN Fail(target, "EMPTY_PATH")
  ELSE revertAt(target, change)

----------------------------------------------------------------------------
(* applyDiff: the reordering of the records *)

(* the comparator handed to sort *)
compare(a, b) ==
  IF isDiffArray(a) /\ isDiffArray(b) /\ a.item.kind = "D" /\ b.item.kind = "D"
  THEN b.index - a.index
  ELSE 0

(* the comparator reads a.item.kind, and b.item.kind when a is a deletion: *)
(* on a record of kind A without an item the read throws a TypeError       *)
compareThrows(a, b) ==
  isDiffArray(a) /\ isDiffArray(b) /\ (~a.item.has \/ (a.item.kind = "D" /\ ~b.item.has))

(* Array.prototype.sort as the engine that runs the package implements it  *)
(* for arrays shorter than 64 elements: the leading run is found (and      *)
(* reversed when it is strictly descending), then every later element is   *)
(* placed by binary insertion.  The sort is stable; with a comparator that *)
(* is not a consistent ordering the result is whatever these comparisons   *)
(* produce.  A comparison that throws ends the sort: -1 stands for it in   *)
(* runLength and insertionPoint.                                           *)
RECURSIVE runLength(_, _, _)
runLength(a, isDescending, idx) ==
  IF idx > Len(a) THEN Len(a)
  ELSE IF compareThrows(a[idx], a[idx - 1]) THEN -1
  ELSE LET order == compare(a[idx], a[idx - 1])
       IN IF isDescending /\ order >= 0 THEN idx - 1
          ELSE IF ~isDescending /\ order < 0 THEN idx - 1
          ELSE runLength(a, isDescending, idx + 1)

Reverse(a) == [i \in 1..Len(a) |-> a[Len(a) + 1 - i]]

countAndMakeRun(a) ==
  IF Len(a) < 2 THEN [arr |-> a, run |-> Len(a), threw |-> FALSE]
  ELSE IF compareThrows(a[2], a[1]) THEN [arr |-> a, run |-> 0, threw |-> TRUE]
  ELSE LET isDescending == compare(a[2], a[1]) < 0
           run == runLength(a, isDescending, 3)
       IN IF run < 0 THEN [arr |-> a, run |-> 0, threw |-> TRUE]
          ELSE [arr |-> IF isDescending
                        THEN Reverse(SubSeq(a, 1, run)) \o SubSeq(a, run + 1, Len(a))
                        ELSE a,
                run |-> run, threw |-> FALSE]

RECURSIVE insertionPoint(_, _, _, _)
(* left and right are 0-based, as in the engine *)
insertionPoint(a, pivot, left, right) ==
  IF left >= right THEN left
  ELSE LET mid == left + ((right - left) \div 2)
       IN IF compareThrows(pivot, a[mid + 1]) THEN -1
          ELSE IF compare(pivot, a[mid + 1]) < 0
          THEN insertionPoint(a, pivot, left, mid)
          ELSE insertionPoint(a, pivot, mid + 1, right)

RECURSIVE binaryInsertionSort(_, _)
(* start is the 0-based position of the next element to place *)
binaryInsertionSort(a, start) ==
  IF start >= Len(a) THEN [arr |-> a, threw |-> FALSE]
  ELSE LET pivot == a[start + 1]
           left == insertionPoint(a, pivot, 0, start)
       IN IF left < 0 THEN [arr |-> a, threw |-> TRUE]
          ELSE binaryInsertionSort(SubSeq(a, 1, left) \o <<pivot>> \o SubSeq(a, left + 1, start)
                                     \o SubSeq(a, start + 2, Len(a)),
                                   start + 1)

(* [...differences].sort(compare): the sorted copy, or threw *)
sort(a) ==
  LET r == countAndMakeRun(a)
  IN IF r.threw THEN [arr |-> a, threw |-> TRUE] ELSE binaryInsertionSort(r.arr, r.run)

(* differences.some(d => isDiffArray(d) && d.item.kind === 'D'), from the  *)
(* i-th record on: "true", "false", or "TypeError" when a record of kind A *)
(* without an item is read first                                           *)
RECURSIVE someArrayDeletion(_, _)
someArrayDeletion(differences, i) ==
  IF i > Len(differences) THEN "false"
  ELSE LET d == differences[i]
       IN IF isDiffArray(d) /\ ~d.item.has THEN "TypeError"
          ELSE IF isDiffArray(d) /\ d.item.kind = "D" THEN "true"
          ELSE someArrayDeletion(differences, i + 1)

ToApply_unsorted(differences) == [arr |-> differences, threw |-> FALSE]

(* toApply of applyDiff, or threw when the comparator throws *)
ToApply(differences) ==
  IF someArrayDeletion(differences, 1) = "true" THEN sort(differences)
  ELSE [arr |-> differences, threw |-> FALSE]

(* the first statement of applyDiff: nothing to do *)
returnsEarly_recordsOnly(target, differences) ==
  ~differences.has \/ Len(differences.val) = 0

returnsEarly(target, differences) ==
  \/ target \in {Null, Undefined, Bool(FALSE), Num(0), NaN, Str("")}
  \/ ~differences.has
  \/ Len(differences.val) = 0

----------------------------------------------------------------------------
(* The textual round trip of the records: JSON.parse(JSON.stringify(x)) *)

RECURSIVE Json(_)
Json(x) ==
  CASE x.t = "date" -> Str(toISOString(x.v))
    [] x.t \in {"invalidDate", "nan"} -> Null
    [] x.t = "regexp" -> Obj(<<>>)
    [] x.t = "array" ->
         Arr([i \in 1..Len(x.v) |-> IF x.v[i].t = "undefined" THEN Null ELSE Json(x.v[i])])
    [] x.t = "object" ->
         LET kept == SelectSeq(x.v, LAMBDA e : e.val.t # "undefined")
         IN Obj([i \in 1..Len(kept) |-> Entry(kept[i].k, Json(kept[i].val))])
    [] OTHER -> x

(* a record after the round trip: absent fields stay absent *)
JsonRecord(d) ==
  [d EXCEPT !.lhs = Json(d.lhs), !.rhs = Json(d.rhs),
            !.item = [d.item EXCEPT !.lhs = Json(d.item.lhs), !.rhs = Json(d.item.rhs)]]

JsonRoundTrip(differences) == [i \in 1..Len(differences) |-> JsonRecord(differences[i])]

----------------------------------------------------------------------------
(* Inputs *)

MaxLen == 5
MaxElems == 2

SeqsUpTo(E, n) == UNION {[1..k -> E] : k \in 0..n}

(* the sequence 1, 2, ..., n *)
Prefix(n) == [i \in 1..n |-> Num(i)]

Obj1(k, x) == Obj(<<Entry(k, x)>>)
Obj2(k1, x1, k2, x2) == Obj(<<Entry(k1, x1), Entry(k2, x2)>>)
Obj3(k1, x1, k2, x2, k3, x3) == Obj(<<Entry(k1, x1), Entry(k2, x2), Entry(k3, x3)>>)

(* every kind of leaf of the data model, and the two empty containers *)
Leaves ==
  {Null, Bool(TRUE), Bool(FALSE), Num(1), Num(2), NaN, Str("x"), Str("y"),
   DateV(0), DateV(1), RegExpV("/a/"), RegExpV("/b/g"), Arr(<<>>), Obj(<<>>)}

(* a pair of leaves at the root, under a key, and at an index *)
PairsLeaf ==
  {<<x, y>> : x \in Leaves, y \in Leaves}
    \cup {<<Obj1("a", x), Obj1("a", y)>> : x \in Leaves, y \in Leaves}
    \cup {<<Arr(<<x>>), Arr(<<y>>)>> : x \in Leaves, y \in Leaves}

(* two sequences that grow or shrink at the end, with a scalar between *)
MixRoots ==
  {Obj3("a", Arr(Prefix(i)), "b", Num(x), "c", Arr(Prefix(j))) :
     i \in 0..MaxLen, x \in 1..2, j \in 0..MaxLen}

PairsMix == MixRoots \X MixRoots

(* mappings of scalars, flat sequences and flat mappings *)
FlatVals ==
  {Num(1), Num(2), Null, Str("x")}
    \cup {Arr(q) : q \in SeqsUpTo({Num(1), Num(2)}, MaxElems)}
    \cup {Obj(<<>>), Obj1("a", Num(1)), Obj1("a", Num(2)), Obj1("b", Num(1)),
          Obj2("a", Num(1), "b", Num(1))}

FewVals == {Num(1), Arr(<<Num(1)>>), Obj(<<>>)}

FlatRoots ==
  {Obj(<<>>)}
    \cup {Obj1("a", x) : x \in FlatVals}
    \cup {Obj1("b", x) : x \in FlatVals}
    \cup {Obj2("a", x, "b", y) : x \in FlatVals, y \in FewVals}
    \cup {Obj2("b", y, "a", x) : x \in FewVals, y \in FewVals}

PairsFlat == FlatRoots \X FlatRoots

(* sequences of sequences and of mappings, at the root and under a key *)
Elems ==
  {Num(1), Arr(<<Num(1)>>), Arr(<<Num(1), Num(2)>>), Obj1("a", Num(1))}

NestedSeqs == {Arr(q) : q \in SeqsUpTo(Elems, MaxElems)}

PairsNested ==
  (NestedSeqs \X NestedSeqs)
    \cup {<<Obj1("a", x), Obj1("a", y)>> : x \in NestedSeqs, y \in NestedSeqs}

TreePairs == PairsLeaf \cup PairsMix \cup PairsFlat \cup PairsNested

(* mappings with a key whose value is undefined on one side and present   *)
(* on the other, alone, next to a changed key and one level down           *)
PresentVals == Leaves \cup {Arr(<<Num(1)>>), Obj1("d", DateV(0))}

UndefShapes(x, y) ==
  {<<Obj1("k", x), Obj1("k", y)>>,
   <<Obj2("n", Num(1), "k", x), Obj2("n", Num(2), "k", y)>>,
   <<Obj1("a", Obj1("k", x)), Obj1("a", Obj1("k", y))>>}

PairsUndef ==
  UNION {UndefShapes(Undefined, v) \cup UndefShapes(v, Undefined) : v \in PresentVals}
    \cup UndefShapes(Undefined, Undefined)

(* self-referential mappings: obj.self = obj, a child pointing back to the *)
(* root (nested.parent = obj), a sequence holding its owner, next to       *)
(* acyclic mappings of the same shapes                                     *)
SelfVals ==
  {Ref(1), Obj(<<>>), Obj1("self", Ref(1)), Obj1("up", Ref(2)), Arr(<<Ref(2)>>),
   Arr(<<Ref(1)>>), Num(1)}

NestedVals ==
  {Obj2("value", Num(n), "parent", Ref(2)) : n \in 1..2}
    \cup {Obj1("value", Num(n)) : n \in 1..2}

CycRoots ==
  {Obj(<<>>)}
    \cup {Obj1("a", Num(n)) : n \in 1..2}
    \cup {Obj2("a", Num(n), "self", x) : n \in 1..2, x \in SelfVals}
    \cup {Obj2("self", x, "a", Num(n)) : n \in 1..2, x \in SelfVals}
    \cup {Obj2("nested", y, "a", Num(n)) : n \in 1..2, y \in NestedVals}
    \cup {Obj3("a", Num(n), "self", x, "nested", y) :
             n \in 1..2, x \in SelfVals, y \in NestedVals}

CycPairs == CycRoots \X CycRoots

(* mappings whose leaves include timestamps, alone and inside containers,  *)
(* next to strings that look like timestamps                               *)
DateVals ==
  {DateV(0), DateV(1), Str(toISOString(0)), Str("x"), Num(1), Null,
   Obj1("created", DateV(0)), Obj1("created", DateV(1)),
   Obj2("created", DateV(1), "n", Num(1)), Obj1("created", Str("x")),
   Arr(<<>>), Arr(<<DateV(0)>>), Arr(<<DateV(0), DateV(1)>>),
   Arr(<<Obj1("d", DateV(1))>>), Arr(<<Num(1), DateV(1)>>),
   Obj1("o", Obj1("d", DateV(1))), Arr(<<Arr(<<DateV(1)>>)>>)}

DateRoots ==
  {Obj(<<>>)}
    \cup {Obj1("a", x) : x \in DateVals}
    \cup {Obj2("a", x, "b", y) : x \in DateVals, y \in {DateV(0), Num(1), Arr(<<DateV(1)>>)}}

(* two sequences that shrink or grow at the end, with a timestamp between *)
MixDateRoots ==
  {Obj3("a", Arr(Prefix(i)), "b", DateV(x), "c", Arr(Prefix(j))) :
     i \in 0..MaxLen, x \in 0..1, j \in 0..MaxLen}

DatePairs == (DateRoots \X DateRoots) \cup (MixDateRoots \X MixDateRoots)

(* hand-written records, well-formed and malformed, as a caller may pass   *)
(* them to the patch engine                                                *)
MaxRecs == 4

PathA == <<Key("a")>>
PathAB == <<Key("a"), Key("b")>>
PathABC == <<Key("a"), Key("b"), Key("c")>>
PathXY == <<Key("x"), Key("y")>>
PathX0 == <<Key("x"), Idx(0)>>
PathX0Y == <<Key("x"), Idx(0), Key("y")>>

ItemN(i) == DiffNewItem(Num(7 + i), None)
ItemD(i) == DiffDeletedItem(Num(i + 1), None)

(* records whose kind, index or item is wrong, and one with an explicit    *)
(* empty path                                                              *)
BadKind(path) == [DiffEdit(path, Num(1), Num(2), None) EXCEPT !.kind = "X"]
NoIndex(path) == [DiffArray(path, 0, ItemN(0)) EXCEPT !.hasIndex = FALSE]
EmptyPathEdit == [DiffEdit(<<>>, Num(1), Num(2), None) EXCEPT !.path = Some(<<>>)]

GoodRecords ==
  {DiffEdit(p, Num(1), Num(2), None) : p \in {<<>>, PathA, PathAB, PathABC, PathXY, PathX0, PathX0Y}}
    \cup {DiffNew(p, Num(2), None) : p \in {<<>>, PathA, PathAB, PathX0, PathX0Y}}
    \cup {DiffDeleted(p, Num(1), None) : p \in {<<>>, PathA, PathAB, PathX0}}
    \cup {DiffArray(p, i, ItemN(i)) : p \in {<<>>, PathA, PathAB, PathXY}, i \in 0..1}
    \cup {DiffArray(p, i, ItemD(i)) : p \in {<<>>, PathA, PathAB, PathXY}, i \in 0..1}
    \cup {EmptyPathEdit}

BadRecords ==
  {BadKind(p) : p \in {<<>>, PathA}}
    \cup {NoIndex(p) : p \in {<<>>, PathA}}
    \cup {DiffArray(p, 0, NoItem) : p \in {<<>>, PathA}}

(* targets: not a container at all, and containers holding scalars,        *)
(* timestamps, mappings and sequences under the key a                      *)
BadTargets == {Null, Undefined, Num(1), Str("x"), Bool(TRUE)}

GoodTargets ==
  {Obj(<<>>), Arr(<<>>), Arr(<<Num(1), Num(2)>>),
   Obj1("x", Arr(<<>>)), Obj1("x", Arr(<<Obj1("z", Num(1))>>)), Obj1("a", Arr(<<>>))}
    \cup {Obj1("a", x) :
            x \in {Num(1), Str("s"), Null, DateV(0), RegExpV("/a/"),
                   Arr(<<Num(1), Num(2)>>), Obj1("b", Num(1)), Obj1("b", Str("s")),
                   Obj1("b", Arr(<<Num(1), Num(2)>>)), Obj1("b", Obj1("c", Num(1))),
                   Obj1("b", DateV(0))}}

(* one record for a single call of applyChange or revertChange *)
SingleCases ==
  {<<t, Some(<<r>>)>> : t \in BadTargets \cup GoodTargets, r \in GoodRecords \cup BadRecords}

(* nothing to apply: an absent or an empty list *)
EmptyCases == {<<t, d>> : t \in BadTargets \cup GoodTargets, d \in {None, Some(<<>>)}}

(* lists of distinct records for applyDiff: deletions and insertions in    *)
(* the sequence under a, records elsewhere, a malformed record             *)
ListRecords ==
  {DiffArray(PathA, i, ItemD(i)) : i \in 0..2}
    \cup {DiffEdit(<<Key("b")>>, Num(1), Num(2), None), DiffArray(PathA, 3, ItemN(3)),
          BadKind(PathA)}

Distinct(q) == \A i, j \in 1..Len(q) : i # j => q[i] # q[j]

RecordLists == {q \in SeqsUpTo(ListRecords, MaxRecs) : Len(q) >= 2 /\ Distinct(q)}

ListTargets == {Obj2("a", Arr(Prefix(3)), "b", Num(1)), Null}

ListCases == {<<t, Some(q)>> : t \in ListTargets, q \in RecordLists}

(* a deletion next to a record of kind A that has no item *)
ItemlessCases ==
  {<<Obj1("a", Arr(Prefix(3))), Some(q)>> :
     q \in {<<DiffArray(PathA, 1, ItemD(1)), DiffArray(PathA, 0, NoItem)>>,
            <<DiffArray(PathA, 0, NoItem), DiffArray(PathA, 1, ItemD(1))>>,
            <<DiffEdit(PathA, Num(1), Num(2), None), DiffArray(PathA, 1, ItemD(1)),
              DiffArray(PathA, 0, NoItem)>>}}

(* records as they come back from text: timestamps are strings, $dates     *)
(* names positions on either side                                          *)
Iso(ms) == Str(toISOString(ms))

TextVals ==
  {Iso(1), Str("x"), Obj1("created", Iso(1)), Obj2("created", Iso(0), "n", Iso(1)),
   Arr(<<Iso(1)>>)}

RECURSIVE StringLocs(_)
(* the positions of the strings inside a value *)
StringLocs(x) ==
  CASE x.t = "string" -> {<<>>}
    [] x.t = "array" -> UNION {{<<Idx(i - 1)>> \o q : q \in StringLocs(x.v[i])} : i \in 1..Len(x.v)}
    [] x.t = "object" ->
         UNION {{<<Key(x.v[i].k)>> \o q : q \in StringLocs(x.v[i].val)} : i \in 1..Len(x.v)}
    [] OTHER -> {}

(* the marker lists over the strings of an lhs and an rhs value: none, one *)
(* marker, or one on each side                                             *)
MarkerLists(lv, rv) ==
  LET onLhs == {<<Key("lhs")>> \o q : q \in StringLocs(lv)}
      onRhs == {<<Key("rhs")>> \o q : q \in StringLocs(rv)}
  IN {<<>>} \cup {<<m>> : m \in onLhs \cup onRhs}
       \cup {<<m1, m2>> : m1 \in onLhs, m2 \in onRhs}

TextRecords ==
  UNION {{DiffEdit(PathA, lv, rv, Some(ms)) : ms \in MarkerLists(lv, rv)} :
           lv \in {Iso(0), Obj1("created", Iso(0))}, rv \in TextVals}
    \cup UNION {{DiffNew(<<Key("b")>>, rv, Some(ms)) : ms \in MarkerLists(Undefined, rv)} :
                  rv \in TextVals}
    \cup UNION {{DiffDeleted(PathA, lv, Some(ms)) : ms \in MarkerLists(lv, Undefined)} :
                  lv \in TextVals}
    \cup UNION {{DiffArray(<<Key("s")>>, 1, DiffNewItem(rv, Some(ms))) :
                   ms \in MarkerLists(Undefined, rv)} : rv \in TextVals}
    \cup UNION {{DiffArray(<<Key("s")>>, 1, DiffDeletedItem(lv, Some(ms))) :
                   ms \in MarkerLists(lv, Undefined)} : lv \in TextVals}
    \cup {[DiffArray(<<Key("s")>>, 1, DiffNewItem(Iso(1), None))
             EXCEPT !.dates = Some(<< <<Key("item"), Key("lhs")>> >>)],
          [DiffArray(<<Key("s")>>, 1, DiffDeletedItem(Iso(1), None))
             EXCEPT !.dates = Some(<< <<Key("item"), Key("rhs")>> >>)]}

TextTargets ==
  {Obj2("a", Str("old"), "s", Arr(<<Str("e")>>)),
   Obj2("a", Iso(0), "s", Arr(<<Str("e"), Str("f")>>))}

TextCases == {<<t, Some(<<r>>)>> : t \in TextTargets, r \in TextRecords}

PatchCases == SingleCases \cup EmptyCases \cup ListCases \cup ItemlessCases

----------------------------------------------------------------------------
(* State *)

VARIABLES
  lhsIn,        \* A, the first argument of diff
  rhsIn,        \* B, the second argument of diff
  differences,  \* the result of diff: None (absent) or Some(records)
  serialized,   \* have the records been through the textual round trip
  target,       \* the caller's container that the patch engine mutates
  toApply,      \* the records a running applyDiff / revert loop goes through
  applied,      \* how many of them have been applied
  error,        \* the error thrown by the last call, "none" when it returned
  pc            \* where the caller is

vars == <<lhsIn, rhsIn, differences, serialized, target, toApply, applied, error, pc>>

InitWith(pairs) ==
  /\ \E pair \in pairs : lhsIn = pair[1] /\ rhsIn = pair[2]
  /\ differences = None
  /\ serialized = FALSE
  /\ target = Undefined
  /\ toApply = <<>>
  /\ applied = 0
  /\ error = "none"
  /\ pc = "ready"

Init == InitWith(TreePairs)

(* const differences = diff(lhs, rhs) *)
CallDiff ==
  /\ pc = "ready"
  /\ LET r == diff(lhsIn, rhsIn)
     IN /\ differences' = r.result
        /\ error' = IF r.threw THEN "RangeError" ELSE "none"
        /\ pc' = IF r.threw THEN "diffThrew" ELSE "diffed"
  /\ UNCHANGED <<lhsIn, rhsIn, serialized, target, toApply, applied>>

(* applyDiff(copy of lhs, differences) up to the loop: the early return    *)
(* and the reordering                                                      *)
ApplyDiffStart ==
  /\ pc = "diffed"
  /\ target' = lhsIn
  /\ applied' = 0
  /\ LET returns == returnsEarly(lhsIn, differences)
         some == IF returns THEN "false" ELSE someArrayDeletion(differences.val, 1)
         sorted == IF returns \/ some = "TypeError"
                   THEN [arr |-> <<>>, threw |-> FALSE]
                   ELSE ToApply(differences.val)
         threw == some = "TypeError" \/ sorted.threw
     IN /\ toApply' = IF threw THEN <<>> ELSE sorted.arr
        /\ error' = IF threw THEN "TypeError" ELSE "none"
        /\ pc' = IF returns THEN "applied"
                 ELSE IF threw THEN "applyFailed"
                 ELSE "applying"
  /\ UNCHANGED <<lhsIn, rhsIn, differences, serialized>>

ApplyStep_swallow ==
  /\ pc = "applying"
  /\ LET r == applyChange(target, toApply[applied + 1])
     IN /\ target' = r.value
        /\ error' = "none"
        /\ applied' = applied + 1
        /\ pc' = IF applied + 1 = Len(toApply) THEN "applied" ELSE "applying"
  /\ UNCHANGED <<lhsIn, rhsIn, differences, serialized, toApply>>

(* one iteration of for (const change of toApply) applyChange(target, true, change) *)
ApplyStep ==
  /\ pc = "applying"
  /\ LET r == applyChange(target, toApply[applied + 1])
     IN /\ target' = r.value
        /\ error' = r.error
        /\ applied' = IF r.error = "none" THEN applied + 1 ELSE applied
        /\ pc' = IF r.error # "none" THEN "applyFailed"
                 ELSE IF applied + 1 = Len(toApply) THEN "applied"
                 ELSE "applying"
  /\ UNCHANGED <<lhsIn, rhsIn, differences, serialized, toApply>>

(* the caller starts reverting the records on a copy of rhs, last record first *)
RevertStart ==
  /\ pc = "diffed"
  /\ target' = rhsIn
  /\ applied' = 0
  /\ toApply' = IF differences.has THEN Reverse(differences.val) ELSE <<>>
  /\ error' = "none"
  /\ pc' = IF differences.has THEN "reverting" ELSE "reverted"
  /\ UNCHANGED <<lhsIn, rhsIn, differences, serialized>>

(* revertChange(target, true, change) for the next record *)
RevertStep ==
  /\ pc = "reverting"
  /\ LET r == revertChange(target, toApply[applied + 1])
     IN /\ target' = r.value
        /\ error' = r.error
        /\ applied' = IF r.error = "none" THEN applied + 1 ELSE applied
        /\ pc' = IF r.error # "none" THEN "revertFailed"
                 ELSE IF applied + 1 = Len(toApply) THEN "reverted"
                 ELSE "reverting"
  /\ UNCHANGED <<lhsIn, rhsIn, differences, serialized, toApply>>

(* const parsed = JSON.parse(JSON.stringify(differences)) *)
Serialize ==
  /\ pc = "diffed"
  /\ ~serialized
  /\ differences.has
  /\ differences' = Some(JsonRoundTrip(differences.val))
  /\ serialized' = TRUE
  /\ UNCHANGED <<lhsIn, rhsIn, target, toApply, applied, error, pc>>

(* applyChange(target, true, change) called directly with one record *)
CallApplyChange ==
  /\ pc = "diffed"
  /\ differences.has
  /\ Len(differences.val) = 1
  /\ LET r == applyChange(lhsIn, differences.val[1])
     IN /\ target' = r.value
        /\ error' = r.error
        /\ applied' = IF r.error = "none" THEN 1 ELSE 0
        /\ pc' = IF r.error = "none" THEN "changeApplied" ELSE "applyChangeFailed"
  /\ toApply' = differences.val
  /\ UNCHANGED <<lhsIn, rhsIn, differences, serialized>>

(* revertChange(target, true, change) called directly with one record *)
CallRevertChange ==
  /\ pc = "diffed"
  /\ differences.has
  /\ Len(differences.val) = 1
  /\ LET r == revertChange(lhsIn, differences.val[1])
     IN /\ target' = r.value
        /\ error' = r.error
        /\ applied' = IF r.error = "none" THEN 1 ELSE 0
        /\ pc' = IF r.error = "none" THEN "changeReverted" ELSE "revertChangeFailed"
  /\ toApply' = differences.val
  /\ UNCHANGED <<lhsIn, rhsIn, differences, serialized>>

Next == CallDiff \/ ApplyDiffStart \/ ApplyStep \/ RevertStart \/ RevertStep

Spec == Init /\ [][Next]_vars

SpecMix == InitWith(PairsMix) /\ [][Next]_vars

(* the records may go through text before they are applied *)
NextText == CallDiff \/ Serialize \/ ApplyDiffStart \/ ApplyStep

SpecText == InitWith(DatePairs) /\ [][NextText]_vars

(* inputs with keys that hold undefined *)
SpecUndef == InitWith(PairsUndef) /\ [][Next]_vars

(* diff alone, on inputs that may be cyclic *)
SpecCyc == InitWith(CycPairs) /\ [][CallDiff]_vars

(* Object identity after a patch call.  The differencer stores its          *)
(* arguments in the records by reference (this.rhs = value), and the patch *)
(* engine assigns the record's value to the target by reference            *)
(* (parent[key] = value, arr[index] = value); new Date(...) is the only    *)
(* fresh object it makes.  So after a call that wrote a container, the     *)
(* container in the target, the one in the record and the one in the rhs   *)
(* tree are one object.                                                    *)

(* where applyChange wrote the value of record d *)
writtenSlot(d) ==
  LET path == IF d.path.has THEN d.path.val ELSE <<>>
  IN IF isDiffArray(d) THEN path \o <<Idx(d.index)>> ELSE path

(* the value applyChange assigned for record d, None when it assigned none *)
writtenValue(d) ==
  IF isDiffArray(d) THEN
    IF d.item.has /\ ~isDiffDeletedItem(d.item)
    THEN LET rhsPaths == IF d.dates.has THEN ItemPaths(d.dates.val, "rhs") ELSE <<>>
             value == IF Len(rhsPaths) > 0 THEN restoreDates(d.item.rhs, rhsPaths, "rhs")
                      ELSE Ok(d.item.rhs)
         IN Some(value.value)
    ELSE None
  ELSE IF (isDiffEdit(d) \/ isDiffNew(d)) /\ d.path.has /\ Len(d.path.val) > 0
       THEN Some(getApplyValue(d, "rhs").value)
  ELSE None

(* the caller changes a container in place: a new key on a mapping, a push *)
(* on a sequence                                                           *)
Poke(c) ==
  IF c.t = "array" THEN SetProp(c, Idx(Len(c.v)), Num(9)) ELSE SetProp(c, Key("poked"), Num(9))

(* after applyChange, or applyDiff with one record, has returned, the      *)
(* caller mutates in place the container the call wrote into the target;   *)
(* every holder of that object sees the mutation                           *)
MutateWritten ==
  /\ \/ pc = "changeApplied"
     \/ pc = "applied" /\ applied = 1
  /\ Len(toApply) = 1
  /\ differences.val = toApply
  /\ LET d == toApply[1]
         slot == writtenSlot(d)
         held == IF isDiffArray(d) THEN [d EXCEPT !.item.rhs = Poke(d.item.rhs)]
                 ELSE [d EXCEPT !.rhs = Poke(d.rhs)]
     IN /\ writtenValue(d).has
        /\ IsContainer(writtenValue(d).val)
        /\ At(target, slot) = writtenValue(d).val
        /\ target' = SetAt(target, slot, Poke(At(target, slot)))
        /\ differences' = Some(<<held>>)
        /\ toApply' = <<held>>
        /\ rhsIn' = IF At(rhsIn, slot) = writtenValue(d).val
                    THEN SetAt(rhsIn, slot, Poke(At(rhsIn, slot)))
                    ELSE rhsIn
  /\ pc' = "mutated"
  /\ UNCHANGED <<lhsIn, serialized, applied, error>>

NextAlias == CallDiff \/ ApplyDiffStart \/ ApplyStep \/ CallApplyChange \/ MutateWritten

(* diff, then one patch call on a copy of lhs, then the caller's mutation *)
SpecAlias == InitWith(PairsFlat \cup PairsNested) /\ [][NextAlias]_vars

(* the patch engine on a target and records the caller wrote: lhsIn is    *)
(* the target before the call                                              *)
InitPatch ==
  /\ \E c \in PatchCases : lhsIn = c[1] /\ target = c[1] /\ differences = c[2]
  /\ rhsIn = Undefined
  /\ serialized = FALSE
  /\ toApply = <<>>
  /\ applied = 0
  /\ error = "none"
  /\ pc = "diffed"

(* revertChange(target, true, change) with the record applyChange has just *)
(* applied to the same target                                              *)
RevertApplied ==
  /\ pc = "changeApplied"
  /\ LET r == revertChange(target, toApply[1])
     IN /\ target' = r.value
        /\ error' = r.error
        /\ pc' = IF r.error = "none" THEN "roundTripped" ELSE "roundTripFailed"
  /\ UNCHANGED <<lhsIn, rhsIn, differences, serialized, toApply, applied>>

NextInverse == CallApplyChange \/ RevertApplied

(* one record applied and then reverted on the same target *)
SpecInverse == InitPatch /\ [][NextInverse]_vars

NextPatch == ApplyDiffStart \/ ApplyStep \/ CallApplyChange \/ CallRevertChange

SpecPatch == InitPatch /\ [][NextPatch]_vars

(* the patch engine on records that have been through text *)
InitText ==
  /\ \E c \in TextCases : lhsIn = c[1] /\ target = c[1] /\ differences = c[2]
  /\ rhsIn = Undefined
  /\ serialized = TRUE
  /\ toApply = <<>>
  /\ applied = 0
  /\ error = "none"
  /\ pc = "diffed"

SpecRevive == InitText /\ [][NextPatch]_vars

----------------------------------------------------------------------------
(* Properties *)

BothMappings == lhsIn.t = "object" /\ rhsIn.t = "object"
BothSequences == lhsIn.t = "array" /\ rhsIn.t = "array"

ApplyDiffOver == pc \in {"applied", "applyFailed"}
RevertOver == pc \in {"reverted", "revertFailed"}

RECURSIVE IsPlain(_)
(* built from null, booleans, numbers, strings, mappings and sequences *)
IsPlain(x) ==
  CASE x.t \in {"null", "boolean", "number", "nan", "string"} -> TRUE
    [] x.t = "array" -> \A i \in 1..Len(x.v) : IsPlain(x.v[i])
    [] x.t = "object" -> \A i \in 1..Len(x.v) : IsPlain(x.v[i].val)
    [] OTHER -> FALSE

(* C1: for all acyclic A and B, whatever their roots, applyDiff of         *)
(* diff(A, B) on a copy of A returns and leaves the copy deep-equal to B.  *)
C1_ApplyRoundTrip ==
  ApplyDiffOver => (pc = "applied" /\ DeepEqual(target, rhsIn))

(* C2: for all acyclic A and B with mapping roots and plain contents,      *)
(* applyDiff(before, diff(before, after)) leaves before deep-equal to      *)
(* after, whatever mix of edits, additions, removals, grown and shrunk     *)
(* sequences separates them.                                               *)
C2_InPlaceContract ==
  (ApplyDiffOver /\ BothMappings /\ IsPlain(lhsIn) /\ IsPlain(rhsIn))
    => (pc = "applied" /\ DeepEqual(target, rhsIn))

RECURSIVE Shrunk(_, _)
(* y is x except that one sequence somewhere in x has lost trailing elements *)
Shrunk(x, y) ==
  \/ /\ x.t = "array" /\ y.t = "array"
     /\ Len(y.v) < Len(x.v)
     /\ \A i \in 1..Len(y.v) : DeepEqual(x.v[i], y.v[i])
  \/ /\ x.t = "array" /\ y.t = "array"
     /\ Len(y.v) = Len(x.v)
     /\ \E i \in 1..Len(x.v) :
           /\ Shrunk(x.v[i], y.v[i])
           /\ \A j \in 1..Len(x.v) : j # i => DeepEqual(x.v[j], y.v[j])
  \/ /\ x.t = "object" /\ y.t = "object"
     /\ Len(x.v) = Len(y.v)
     /\ \A i \in 1..Len(x.v) : HasKey(y, x.v[i].k)
     /\ \E i \in 1..Len(x.v) :
           /\ Shrunk(x.v[i].val, GetKey(y, x.v[i].k))
           /\ \A j \in 1..Len(x.v) :
                 j # i => DeepEqual(x.v[j].val, GetKey(y, x.v[j].k))

(* C3: when B is A except that one sequence somewhere in A has lost k >= 1 *)
(* trailing elements, applyDiff of diff(A, B) on a copy of A returns and   *)
(* yields B: only the trailing elements go, the others keep index and value. *)
C3_ShrinkFromEnd ==
  (ApplyDiffOver /\ Shrunk(lhsIn, rhsIn))
    => (pc = "applied" /\ DeepEqual(target, rhsIn))

(* a sequence under a key went from five elements to one *)
C3_Witness ==
  /\ pc = "applied"
  /\ lhsIn \in MixRoots
  /\ Shrunk(lhsIn, rhsIn)
  /\ Len(GetKey(lhsIn, "c").v) - Len(GetKey(rhsIn, "c").v) = 4
  /\ applied = 4
  /\ GetKey(target, "c") = Arr(<<Num(1)>>)

(* C4 as stated: for all acyclic A and B, reverting every record of        *)
(* diff(A, B), last record first, on a copy of B yields A.                 *)
C4_RevertRoundTrip ==
  RevertOver => (pc = "reverted" /\ DeepEqual(target, lhsIn))

(* C4 amended: the same for A and B whose roots are both mappings, or both *)
(* sequences of the same length (so that no record is a root-level one).   *)
C4_RevertRoundTripPathed ==
  (RevertOver /\ (BothMappings \/ (BothSequences /\ Len(lhsIn.v) = Len(rhsIn.v))))
    => (pc = "reverted" /\ DeepEqual(target, lhsIn))

(* three inserted elements were reverted, highest index first *)
C4_Witness ==
  /\ pc = "reverted"
  /\ BothMappings
  /\ applied >= 3
  /\ \E i \in 1..Len(toApply) : toApply[i].kind = "A" /\ toApply[i].item.kind = "N"
  /\ \E i \in 1..Len(toApply) : toApply[i].kind = "A" /\ toApply[i].item.kind = "D"
  /\ DeepEqual(target, lhsIn)

(* C5: diff of a value and a structural copy of it is absent, and a result *)
(* that is present is never an empty list.                                 *)
C5_NoChangeIsAbsent ==
  pc = "diffed" =>
    /\ DeepEqual(lhsIn, rhsIn) => ~differences.has
    /\ differences.has => Len(differences.val) > 0

(* a sequence holding a mapping and a nested sequence, compared with its copy *)
C5_Witness ==
  /\ pc = "diffed"
  /\ lhsIn = Obj1("a", Arr(<<Obj1("a", Num(1)), Arr(<<Num(1), Num(2)>>)>>))
  /\ rhsIn = lhsIn
  /\ ~differences.has

(* the path of a record, the empty path when it is absent *)
RecPath(d) == IF d.path.has THEN d.path.val ELSE <<>>

IsPrefix(p, q) == Len(p) <= Len(q) /\ SubSeq(q, 1, Len(p)) = p

Max(a, b) == IF a > b THEN a ELSE b

KeysOf(x) == {x.v[i].k : i \in 1..Len(x.v)}

RECURSIVE FieldPaths(_, _)
(* the locations that exist in x or in y and whose parents are containers  *)
(* of the same type in both; back edges are not followed                   *)
FieldPaths(x, y) ==
  {<<>>} \cup
    (IF x.t = "array" /\ y.t = "array" THEN
       UNION {{<<Idx(i)>> \o q : q \in FieldPaths(GetIdx(x, i), GetIdx(y, i))} :
                i \in 0..(Max(Len(x.v), Len(y.v)) - 1)}
     ELSE IF x.t = "object" /\ y.t = "object" THEN
       UNION {{<<Key(k)>> \o q : q \in FieldPaths(GetKey(x, k), GetKey(y, k))} :
                k \in KeysOf(x) \cup KeysOf(y)}
     ELSE {})

RECURSIVE RefLocs(_, _)
(* the back edges of a value: where they sit and how far up they point *)
RefLocs(x, loc) ==
  CASE x.t = "ref" -> {<<loc, x.v>>}
    [] x.t = "array" -> UNION {RefLocs(x.v[i], loc \o <<Idx(i - 1)>>) : i \in 1..Len(x.v)}
    [] x.t = "object" -> UNION {RefLocs(x.v[i].val, loc \o <<Key(x.v[i].k)>>) : i \in 1..Len(x.v)}
    [] OTHER -> {}

(* both inputs are cyclic, in the same places *)
SameCycles == RefLocs(lhsIn, <<>>) = RefLocs(rhsIn, <<>>) /\ RefLocs(lhsIn, <<>>) # {}

(* the record is about location p or about something below it *)
Covers(d, p) ==
  \/ IsPrefix(p, RecPath(d))
  \/ d.kind = "A" /\ RecPath(d) \o <<Idx(d.index)>> = p

(* C6: when both inputs are self-referential in the same places (obj.self  *)
(* = obj on each side, a child pointing back to the root), diff returns,   *)
(* and every field that holds no cycle and differs between the two sides   *)
(* has a record at or below its path.                                      *)
C6_CycleSafe ==
  (pc \in {"diffed", "diffThrew"} /\ SameCycles) =>
    /\ pc = "diffed"
    /\ \A p \in FieldPaths(lhsIn, rhsIn) :
          (/\ ~HasRef(At(lhsIn, p)) /\ ~HasRef(At(rhsIn, p))
           /\ ~DeepEqual(At(lhsIn, p), At(rhsIn, p)))
            => /\ differences.has
               /\ \E i \in 1..Len(differences.val) : Covers(differences.val[i], p)

(* obj.self = obj and nested.parent = obj on both sides, the scalar under  *)
(* the child and the sibling scalar both changed                           *)
C6_Witness ==
  /\ pc = "diffed"
  /\ lhsIn = Obj3("a", Num(1), "self", Ref(1), "nested", Obj2("value", Num(1), "parent", Ref(2)))
  /\ rhsIn = Obj3("a", Num(2), "self", Ref(1), "nested", Obj2("value", Num(2), "parent", Ref(2)))
  /\ differences.has
  /\ Len(differences.val) = 2

(* C7: diff returns (records or absent) for every pair of inputs, also     *)
(* when a cyclic value is on one side only or is carried whole in a record. *)
C7_DiffNeverFails == pc # "diffThrew"

(* the classified type of a value, read off the value itself *)
Kind(x) ==
  CASE x.t = "nan" -> "number"
    [] x.t = "invalidDate" -> "date"
    [] OTHER -> x.t

(* the records diff returned, none when the result is absent *)
Recs == IF differences.has THEN differences.val ELSE <<>>

(* the locations that hold a value on both sides *)
SharedPaths ==
  {p \in FieldPaths(lhsIn, rhsIn) :
     At(lhsIn, p).t # "undefined" /\ At(rhsIn, p).t # "undefined"}

(* the records at location p or below it *)
RecsUnder(p) == {i \in 1..Len(Recs) : IsPrefix(p, RecPath(Recs[i]))}

(* exactly one record at or below p: an Edit at p carrying both values *)
OneEditAt(p) ==
  /\ Cardinality(RecsUnder(p)) = 1
  /\ \A i \in RecsUnder(p) :
        /\ Recs[i].kind = "E"
        /\ RecPath(Recs[i]) = p
        /\ Recs[i].path.has = (Len(p) > 0)
        /\ Recs[i].lhs = At(lhsIn, p)
        /\ Recs[i].rhs = At(rhsIn, p)

(* C8: wherever the two values at a path classify differently, diff emits  *)
(* exactly one Edit at that path, carrying both whole values, and no       *)
(* record for any path below it.                                           *)
C8_TypeChangeIsOneEdit ==
  pc = "diffed" =>
    \A p \in SharedPaths :
      Kind(At(lhsIn, p)) # Kind(At(rhsIn, p)) => OneEditAt(p)

(* a sequence replaced by a mapping with as many entries *)
C8_Witness ==
  /\ pc = "diffed"
  /\ lhsIn = Obj1("a", Arr(<<Num(1), Num(2)>>))
  /\ rhsIn = Obj1("a", Obj2("a", Num(1), "b", Num(1)))
  /\ OneEditAt(<<Key("a")>>)

(* C9: for two scalars of the same classified type at a path, diff emits   *)
(* one Edit iff they are strictly unequal, except that NaN against NaN     *)
(* emits nothing; NaN against another number emits one Edit.               *)
C9_ScalarRule ==
  pc = "diffed" =>
    \A p \in SharedPaths :
      LET x == At(lhsIn, p)
          y == At(rhsIn, p)
      IN (Kind(x) = Kind(y) /\ Kind(x) \in {"boolean", "number", "string"}) =>
           IF x.t = "nan" /\ y.t = "nan" THEN RecsUnder(p) = {}
           ELSE IF x.t = "nan" \/ y.t = "nan" \/ x # y THEN OneEditAt(p)
           ELSE RecsUnder(p) = {}

(* NaN against NaN under a key: nothing is emitted *)
C9_Witness ==
  /\ pc = "diffed"
  /\ lhsIn = Obj1("a", NaN)
  /\ rhsIn = Obj1("a", NaN)
  /\ ~differences.has

(* C10: for A and B with mapping roots whose leaves include timestamps,    *)
(* applying diff(A, B) after a round trip through text to a copy of A      *)
(* leaves a timestamp with the same instant wherever B holds one, and      *)
(* every other position equal to B.                                        *)
C10_DateRoundTrip ==
  (ApplyDiffOver /\ serialized /\ BothMappings)
    => (pc = "applied" /\ DeepEqual(target, rhsIn))

----------------------------------------------------------------------------
(* Properties of the patch engine on records the caller wrote *)

(* a direct call of applyChange or revertChange has returned or thrown *)
SingleCallOver ==
  pc \in {"changeApplied", "applyChangeFailed", "changeReverted", "revertChangeFailed"}
SingleCallFailed == pc \in {"applyChangeFailed", "revertChangeFailed"}

(* the record of the direct call *)
TheChange == differences.val[1]

(* null, absent or a primitive *)
NotAContainerTarget ==
  lhsIn.t \in {"null", "undefined", "boolean", "number", "nan", "string"}

(* C11: applyChange and revertChange fail with InvalidTarget whenever the  *)
(* target is null, absent or a primitive, and nothing is mutated.          *)
C11_InvalidTarget ==
  (SingleCallOver /\ NotAContainerTarget) =>
    /\ SingleCallFailed
    /\ error = "INVALID_TARGET"
    /\ target = lhsIn

(* revertChange was called on a string with a well-formed record *)
C11_Witness ==
  /\ pc = "revertChangeFailed"
  /\ lhsIn = Str("x")
  /\ TheChange = DiffEdit(PathA, Num(1), Num(2), None)
  /\ error = "INVALID_TARGET"

(* the record's kind is not E, N, D or A, or it is A without a numeric     *)
(* index or without an item                                                *)
Malformed(d) ==
  \/ d.kind \notin {"E", "N", "D", "A"}
  \/ d.kind = "A" /\ (~d.hasIndex \/ ~d.item.has)

(* C12: on a container target, applyChange and revertChange fail with      *)
(* InvalidChange and leave the target unchanged whenever the record's kind *)
(* is not one of E, N, D, A, or the kind is A and the index is not a       *)
(* number or the item is missing.                                          *)
C12_InvalidChange ==
  (SingleCallOver /\ ~NotAContainerTarget /\ Malformed(TheChange)) =>
    /\ SingleCallFailed
    /\ error = "INVALID_CHANGE"
    /\ target = lhsIn

(* applyChange was called with a record of kind A that has no item *)
C12_Witness ==
  /\ pc = "applyChangeFailed"
  /\ lhsIn = Obj1("a", Arr(<<Num(1), Num(2)>>))
  /\ TheChange = DiffArray(PathA, 0, NoItem)
  /\ error = "INVALID_CHANGE"

(* the record has no path, or an empty one *)
RootLevel(d) == ~d.path.has \/ Len(d.path.val) = 0

(* C13: revertChange on a well-formed record whose path is absent or       *)
(* empty, of any kind, fails with EmptyPath and leaves the target          *)
(* unchanged.                                                              *)
C13_RevertNeedsPath ==
  (/\ pc \in {"changeReverted", "revertChangeFailed"}
   /\ ~NotAContainerTarget
   /\ ~Malformed(TheChange)
   /\ RootLevel(TheChange)) =>
    /\ pc = "revertChangeFailed"
    /\ error = "EMPTY_PATH"
    /\ target = lhsIn

(* a root-level insertion into a sequence could not be reverted *)
C13_Witness ==
  /\ pc = "revertChangeFailed"
  /\ lhsIn = Arr(<<Num(1), Num(2)>>)
  /\ TheChange = DiffArray(<<>>, 1, ItemN(1))
  /\ error = "EMPTY_PATH"
  /\ target = lhsIn

(* some intermediate (non-final) segment of the path resolves in t to a    *)
(* value that is neither absent or null nor a sequence or mapping, all     *)
(* segments before it resolving to containers                              *)
HitsNonContainer(t, path) ==
  \E i \in 1..(Len(path) - 1) :
     /\ \A j \in 0..(i - 1) : IsContainer(At(t, SubSeq(path, 1, j)))
     /\ At(t, SubSeq(path, 1, i)).t \notin {"undefined", "null", "array", "object"}

(* C14: applyChange and revertChange fail with NotObject when an           *)
(* intermediate path segment resolves in the target to a value that is     *)
(* neither absent or null nor a container.                                 *)
C14_NotObject ==
  (/\ SingleCallOver
   /\ ~NotAContainerTarget
   /\ ~Malformed(TheChange)
   /\ ~RootLevel(TheChange)
   /\ HitsNonContainer(lhsIn, TheChange.path.val)) =>
    (SingleCallFailed /\ error = "NOT_OBJECT")

(* the failure kinds of the patch engine *)
DiffErrorCodes == {"INVALID_TARGET", "INVALID_CHANGE", "EMPTY_PATH", "NOT_OBJECT", "INVALID_PATH"}

(* C15: whenever a call of applyChange or revertChange fails, the target   *)
(* is as it was before the call and the failure is one of InvalidTarget,   *)
(* InvalidChange, EmptyPath, NotObject, InvalidPath; also for a record of  *)
(* kind A whose path leads to an absent value or to one that is not a      *)
(* sequence.                                                               *)
C15_FailedCallIsAtomic ==
  SingleCallFailed => (target = lhsIn /\ error \in DiffErrorCodes)

(* the record sequence handed to applyDiff is absent or empty *)
NothingToApply == ~differences.has \/ Len(differences.val) = 0

(* C16: applyDiff raises no error and leaves the target as it was when the *)
(* record sequence is absent or empty, and raises no error when the        *)
(* target is null or absent.                                               *)
C16_ApplyDiffNoOp ==
  (ApplyDiffOver /\ (NothingToApply \/ lhsIn.t \in {"null", "undefined"})) =>
    /\ pc = "applied"
    /\ error = "none"
    /\ target = lhsIn

(* applyDiff was handed a null target and a list with a deletion *)
C16_Witness ==
  /\ pc = "applied"
  /\ lhsIn = Null
  /\ differences.has
  /\ Len(differences.val) >= 2
  /\ \E i \in 1..Len(differences.val) : differences.val[i] = DiffArray(PathA, 1, ItemD(1))
  /\ applied = 0
  /\ error = "none"

(* applyDiff has fixed the order in which it applies the records *)
OrderFixed == pc \in {"applying", "applied", "applyFailed"} /\ Len(toApply) > 0

(* a record of kind A that deletes an element *)
IsArrayDeletion(d) == d.kind = "A" /\ d.item.has /\ d.item.kind = "D"

(* C17: in applyDiff, for any record list, any two records of kind A that  *)
(* delete from the same array are applied with the higher index before the *)
(* lower index.                                                            *)
C17_DeletionsHighestFirst ==
  OrderFixed =>
    \A i, j \in 1..Len(toApply) :
      (/\ i < j
       /\ IsArrayDeletion(toApply[i]) /\ IsArrayDeletion(toApply[j])
       /\ toApply[i].path = toApply[j].path)
        => toApply[i].index >= toApply[j].index

RECURSIVE AfterRecords(_, _, _)
(* the outcome of applying the first n records of recs to t one after the  *)
(* other, stopping at the first that fails                                 *)
AfterRecords(t, recs, n) ==
  IF n = 0 THEN Ok(t)
  ELSE LET before == AfterRecords(t, recs, n - 1)
       IN IF before.error # "none" THEN before
          ELSE applyChange(before.value, recs[n])

(* C18: applyDiff does not catch per-record failures: when applyChange     *)
(* fails on the k-th record of the (possibly reordered) sequence the       *)
(* failure reaches the caller, the effects of the k-1 earlier records      *)
(* remain in the target, and no later record is applied.                   *)
C18_FailureAbortsBatch ==
  /\ (pc \in {"applying", "applied"} /\ Len(toApply) > 0) =>
       (error = "none" /\ AfterRecords(lhsIn, toApply, applied) = Ok(target))
  /\ (pc = "applyFailed" /\ Len(toApply) > 0) =>
       /\ applied < Len(toApply)
       /\ error # "none"
       /\ AfterRecords(lhsIn, toApply, applied).error = "none"
       /\ applyChange(AfterRecords(lhsIn, toApply, applied).value, toApply[applied + 1])
            = Fail(target, error)

(* the third of four records was malformed: two deletions had been applied *)
C18_Witness ==
  /\ pc = "applyFailed"
  /\ Len(toApply) = 4
  /\ applied = 2
  /\ error = "INVALID_CHANGE"
  /\ toApply[3] = BadKind(PathA)
  /\ IsArrayDeletion(toApply[1]) /\ IsArrayDeletion(toApply[2])
  /\ GetKey(target, "a") = Arr(<<Num(1)>>)

(* where applyDiff applies the record d (the records of a list are distinct) *)
PlaceOf(d) == CHOOSE k \in 1..Len(toApply) : toApply[k] = d

(* C20: applyDiff applies the records in the given order when none of them *)
(* is an array deletion; when some are, every pair of records that are not *)
(* both array deletions is still applied in its original relative order.   *)
C20_StableReordering ==
  (OrderFixed /\ differences.has /\ Distinct(differences.val)) =>
    LET given == differences.val
    IN /\ Len(toApply) = Len(given)
       /\ \A i \in 1..Len(given) : \E k \in 1..Len(toApply) : toApply[k] = given[i]
       /\ (\A i \in 1..Len(given) : ~IsArrayDeletion(given[i])) => toApply = given
       /\ \A i, j \in 1..Len(given) :
             (i < j /\ ~(IsArrayDeletion(given[i]) /\ IsArrayDeletion(given[j])))
               => PlaceOf(given[i]) < PlaceOf(given[j])

----------------------------------------------------------------------------
(* Keys whose value is undefined *)

(* the paths of the keys that exist on both sides *)
KeyPaths ==
  {p \in FieldPaths(lhsIn, rhsIn) :
     /\ Len(p) > 0
     /\ ~p[Len(p)].isNum
     /\ HasKey(At(lhsIn, SubSeq(p, 1, Len(p) - 1)), p[Len(p)].s)
     /\ HasKey(At(rhsIn, SubSeq(p, 1, Len(p) - 1)), p[Len(p)].s)}

(* exactly one record at or below p, of the given kind, at p *)
OneRecordAt(p, kind) ==
  /\ Cardinality(RecsUnder(p)) = 1
  /\ \A i \in RecsUnder(p) : Recs[i].kind = kind /\ RecPath(Recs[i]) = p

(* C19: a key whose value is undefined is treated as an absent key:        *)
(* against a present value v (null included) diff yields exactly one Added *)
(* record carrying v when the undefined is on the left, exactly one        *)
(* Removed record carrying v when it is on the right, and never an Edit.   *)
C19_UndefinedIsAbsent ==
  pc = "diffed" =>
    \A p \in KeyPaths :
      LET x == At(lhsIn, p)
          y == At(rhsIn, p)
      IN /\ (x.t = "undefined" /\ y.t # "undefined") =>
              (OneRecordAt(p, "N") /\ \A i \in RecsUnder(p) : Recs[i].rhs = y)
         /\ (x.t # "undefined" /\ y.t = "undefined") =>
              (OneRecordAt(p, "D") /\ \A i \in RecsUnder(p) : Recs[i].lhs = x)

(* undefined against null under the same key: one Added record carrying null *)
C19_Witness ==
  /\ pc = "diffed"
  /\ lhsIn = Obj1("k", Undefined)
  /\ rhsIn = Obj1("k", Null)
  /\ differences = Some(<<DiffNew(<<Key("k")>>, Null, None)>>)

----------------------------------------------------------------------------
(* The array branch of diff *)

(* the locations that hold a sequence on both sides *)
SeqPaths == {p \in SharedPaths : At(lhsIn, p).t = "array" /\ At(rhsIn, p).t = "array"}

(* the records of kind A that carry path p, in the order diff emitted them *)
ArrayOpsAt(p) == SelectSeq(Recs, LAMBDA d : d.kind = "A" /\ RecPath(d) = p)

(* the k-th ArrayOp at p is the one the lengths m and n call for: a        *)
(* deletion of lhs[n + k - 1] when lhs is longer, an insertion of          *)
(* rhs[m + k - 1] when rhs is longer                                       *)
TailOpAt(p, k) ==
  LET m == Len(At(lhsIn, p).v)
      n == Len(At(rhsIn, p).v)
      d == ArrayOpsAt(p)[k]
  IN /\ d.path.has = (Len(p) > 0)
     /\ d.hasIndex
     /\ d.item.has
     /\ IF m > n
        THEN /\ d.index = n + k - 1
             /\ d.item.kind = "D"
             /\ d.item.lhs = At(lhsIn, p).v[n + k]
        ELSE /\ d.index = m + k - 1
             /\ d.item.kind = "N"
             /\ d.item.rhs = At(rhsIn, p).v[m + k]

(* C21: for two sequences at the same path with lengths m and n, the       *)
(* ArrayOps carrying that path are, in ascending index order, a deletion   *)
(* of lhs[i] for exactly n <= i < m and an insertion of rhs[i] for exactly *)
(* m <= i < n; every other record under the path goes through an index     *)
(* below min(m, n); every ArrayOp sits at such a path and its item is an   *)
(* insertion or a deletion, never an Edit.                                 *)
C21_ArrayBranch ==
  pc = "diffed" =>
    /\ \A p \in SeqPaths :
         LET m == Len(At(lhsIn, p).v)
             n == Len(At(rhsIn, p).v)
         IN /\ Len(ArrayOpsAt(p)) = Max(m, n) - Min(m, n)
            /\ \A k \in 1..Len(ArrayOpsAt(p)) : TailOpAt(p, k)
            /\ \A i \in RecsUnder(p) :
                 (Recs[i].kind # "A" \/ RecPath(Recs[i]) # p) =>
                   /\ Len(RecPath(Recs[i])) > Len(p)
                   /\ \E j \in 0..(Min(m, n) - 1) : RecPath(Recs[i])[Len(p) + 1] = Idx(j)
    /\ \A i \in 1..Len(Recs) :
         Recs[i].kind = "A" =>
           /\ RecPath(Recs[i]) \in SeqPaths
           /\ Recs[i].item.kind \in {"N", "D"}

(* an inner sequence that grew by one and an outer one that shrank by one *)
C21_Witness ==
  /\ pc = "diffed"
  /\ lhsIn = Arr(<<Arr(<<Num(1)>>), Num(1)>>)
  /\ rhsIn = Arr(<<Arr(<<Num(1), Num(2)>>)>>)
  /\ Len(Recs) = 2
  /\ Recs[1].kind = "A" /\ Recs[1].index = 1 /\ Recs[1].item.kind = "N"
  /\ Recs[2].kind = "A" /\ Recs[2].index = 1 /\ Recs[2].item.kind = "D"

----------------------------------------------------------------------------
(* The effect of one ArrayOp *)

(* the value a record's path leads to in t *)
Addressed(t, d) == At(t, RecPath(d))

(* items with x inserted in front of position index (0-based) *)
InsertAt(items, index, x) ==
  [i \in 1..(Len(items) + 1) |->
     IF i <= index THEN items[i] ELSE IF i = index + 1 THEN x ELSE items[i - 1]]

(* items without the element at position index (0-based) *)
RemoveAt(items, index) ==
  [i \in 1..(Len(items) - 1) |-> IF i <= index THEN items[i] ELSE items[i + 1]]

(* applyChange returned from a record of kind A whose path leads to a sequence *)
ArrayOpApplied ==
  /\ pc = "changeApplied"
  /\ TheChange.kind = "A"
  /\ Addressed(lhsIn, TheChange).t = "array"

(* C22: applyChange with an ArrayOp whose item is Inserted inserts the new *)
(* value at index: the sequence grows by one, the elements from index on   *)
(* move up by one and none is overwritten; with an item that is Deleted it *)
(* removes the element at index: the sequence shrinks by one and the later *)
(* elements move down by one.                                              *)
C22_ArrayOpEffect ==
  ArrayOpApplied =>
    LET before == Addressed(lhsIn, TheChange).v
        after == Addressed(target, TheChange)
        i == TheChange.index
    IN /\ (TheChange.item.kind = "N" /\ i <= Len(before)) =>
            after = Arr(InsertAt(before, i, TheChange.item.rhs))
       /\ (TheChange.item.kind = "D" /\ i < Len(before)) =>
            after = Arr(RemoveAt(before, i))

----------------------------------------------------------------------------
(* Date markers *)

RECURSIVE DateLocs(_)
(* the locations of the timestamps inside a value *)
DateLocs(x) ==
  CASE x.t \in {"date", "invalidDate"} -> {<<>>}
    [] x.t = "array" -> UNION {{<<Idx(i - 1)>> \o q : q \in DateLocs(x.v[i])} : i \in 1..Len(x.v)}
    [] x.t = "object" ->
         UNION {{<<Key(x.v[i].k)>> \o q : q \in DateLocs(x.v[i].val)} : i \in 1..Len(x.v)}
    [] OTHER -> {}

(* the marker paths a record has to carry *)
MarkersDue(d) ==
  IF d.kind = "A"
  THEN {<<Key("item"), Key("lhs")>> \o q : q \in DateLocs(d.item.lhs)}
         \cup {<<Key("item"), Key("rhs")>> \o q : q \in DateLocs(d.item.rhs)}
  ELSE {<<Key("lhs")>> \o q : q \in DateLocs(d.lhs)}
         \cup {<<Key("rhs")>> \o q : q \in DateLocs(d.rhs)}

(* C23: every record diff emits carries in $dates the position of every   *)
(* timestamp inside its values, each once, prefixed with lhs or rhs (and   *)
(* with item in front on an ArrayOp), and nothing else; $dates is absent,  *)
(* never empty, when there is none; the item of an ArrayOp has no $dates.  *)
C23_DateMarkersExact ==
  (pc = "diffed" /\ ~serialized) =>
    \A i \in 1..Len(Recs) :
      LET d == Recs[i]
      IN /\ d.dates.has = (MarkersDue(d) # {})
         /\ d.dates.has =>
              /\ Len(d.dates.val) = Cardinality(MarkersDue(d))
              /\ {d.dates.val[j] : j \in 1..Len(d.dates.val)} = MarkersDue(d)
         /\ d.kind = "A" => ~d.item.dates.has

(* a mapping holding a timestamp appended to a sequence, next to an Edit   *)
(* from a timestamp to a sequence of one                                   *)
C23_Witness ==
  /\ pc = "diffed"
  /\ ~serialized
  /\ lhsIn = Obj2("a", Arr(<<>>), "b", DateV(0))
  /\ rhsIn = Obj2("a", Arr(<<Obj1("d", DateV(1))>>), "b", Arr(<<DateV(1)>>))
  /\ Len(Recs) = 2
  /\ Recs[1].dates = Some(<< <<Key("item"), Key("rhs"), Key("d")>> >>)
  /\ Recs[2].dates = Some(<< <<Key("lhs")>>, <<Key("rhs"), Idx(0)>> >>)

----------------------------------------------------------------------------
(* Date revival *)

RECURSIVE AllLocs(_)
(* every location inside a value, the value's own included *)
AllLocs(x) ==
  {<<>>} \cup
    (CASE x.t = "array" ->
            UNION {{<<Idx(i - 1)>> \o q : q \in AllLocs(x.v[i])} : i \in 1..Len(x.v)}
       [] x.t = "object" ->
            UNION {{<<Key(x.v[i].k)>> \o q : q \in AllLocs(x.v[i].val)} : i \in 1..Len(x.v)}
       [] OTHER -> {})

(* the positions the markers of d name under the given root *)
Marked(d, root) ==
  IF d.dates.has
  THEN {SubSeq(d.dates.val[j], Len(root) + 1, Len(d.dates.val[j])) :
          j \in {j \in 1..Len(d.dates.val) : IsPrefix(root, d.dates.val[j])}}
  ELSE {}

(* the same leaf, or containers of the same type with the same keys *)
SameNode(x, y) ==
  IF IsContainer(x) /\ IsContainer(y)
  THEN /\ x.t = y.t
       /\ Len(x.v) = Len(y.v)
       /\ x.t = "object" => \A i \in 1..Len(x.v) : x.v[i].k = y.v[i].k
  ELSE x = y

(* written is source with the marked positions, and only those, converted *)
RevivedAt(written, source, marks) ==
  /\ \A q \in marks : At(written, q) = NewDate(At(source, q))
  /\ \A q \in AllLocs(source) \cup AllLocs(written) :
        (\A p \in marks : ~IsPrefix(p, q)) => SameNode(At(written, q), At(source, q))
  /\ marks = {} => written = source

(* C24: applyChange converts to timestamps exactly the positions named by  *)
(* markers rooted at rhs (item, rhs on an ArrayOp) and ignores those       *)
(* rooted at lhs; revertChange converts exactly those rooted at lhs; with  *)
(* no marker for the side being written the value is written unchanged.    *)
C24_SideSelectiveRevival ==
  LET d == TheChange
      slot == At(target, RecPath(d))
      element == At(target, RecPath(d) \o <<Idx(d.index)>>)
  IN /\ (pc = "changeApplied" /\ d.kind \in {"E", "N"}) =>
          RevivedAt(slot, d.rhs, Marked(d, <<Key("rhs")>>))
     /\ (pc = "changeApplied" /\ d.kind = "A" /\ d.item.kind = "N") =>
          RevivedAt(element, d.item.rhs, Marked(d, <<Key("item"), Key("rhs")>>))
     /\ (pc = "changeReverted" /\ d.kind \in {"E", "D"}) =>
          RevivedAt(slot, d.lhs, Marked(d, <<Key("lhs")>>))
     /\ (pc = "changeReverted" /\ d.kind = "A" /\ d.item.kind = "D") =>
          RevivedAt(element, d.item.lhs, Marked(d, <<Key("item"), Key("lhs")>>))

(* an Edit from a timestamp to a mapping with two strings, one of them     *)
(* marked: applied, created is a timestamp and n is still a string         *)
C24_Witness ==
  /\ pc = "changeApplied"
  /\ TheChange = DiffEdit(PathA, Iso(0), Obj2("created", Iso(0), "n", Iso(1)),
                          Some(<< <<Key("lhs")>>, <<Key("rhs"), Key("created")>> >>))
  /\ At(target, PathA) = Obj2("created", DateV(0), "n", Iso(1))

----------------------------------------------------------------------------
(* Intermediate path segments *)

(* the segments under which a container holds something *)
ChildSegs(c) ==
  IF c.t = "array" THEN {Idx(i - 1) : i \in 1..Len(c.v)}
  ELSE IF c.t = "object" THEN {Key(c.v[i].k) : i \in 1..Len(c.v)}
  ELSE {}

(* the path stays inside the value model: it goes through no timestamp or  *)
(* pattern, and every segment suits the container it is looked up in, an   *)
(* index in a sequence, a key in a mapping                                 *)
TypedPath(t, path) ==
  \A k \in 1..Len(path) :
    LET c == At(t, SubSeq(path, 1, k - 1))
    IN /\ c.t \notin {"date", "invalidDate", "regexp"}
       /\ IsContainer(c) => ((c.t = "array") = path[k].isNum)

(* the intermediate at the first k segments of the path after the call: a  *)
(* fresh container of the type the next segment asks for when nothing was  *)
(* there, holding at most the next segment; the container that was there,  *)
(* with everything beside the next segment as before, otherwise            *)
IntermediateOk(path, k) ==
  LET p == SubSeq(path, 1, k)
      next == path[k + 1]
      before == At(lhsIn, p)
      after == At(target, p)
  IN /\ before.t = "undefined" =>
          /\ after.t = IF next.isNum THEN "array" ELSE "object"
          /\ ChildSegs(after) \subseteq {next}
     /\ IsContainer(before) =>
          /\ after.t = before.t
          /\ \A seg \in ChildSegs(before) \ {next} : GetProp(after, seg) = GetProp(before, seg)

(* C25: applyChange creates every absent intermediate path segment before  *)
(* the final write, as an empty sequence when the next segment is a number *)
(* and as an empty mapping otherwise, and reuses the intermediate          *)
(* containers that exist.                                                  *)
C25_ApplyCreatesIntermediates ==
  (pc = "changeApplied" /\ ~RootLevel(TheChange) /\ TypedPath(lhsIn, TheChange.path.val)) =>
    \A k \in 1..(Len(TheChange.path.val) - 1) : IntermediateOk(TheChange.path.val, k)

(* an Added record at x, 0, y applied to an empty mapping *)
C25_Witness ==
  /\ pc = "changeApplied"
  /\ lhsIn = Obj(<<>>)
  /\ TheChange = DiffNew(PathX0Y, Num(2), None)
  /\ target = Obj1("x", Arr(<<Obj1("y", Num(2))>>))

----------------------------------------------------------------------------
(* Aliasing *)

(* C27: after applyChange or applyDiff has returned, the target shares no  *)
(* container with the applied records or with the rhs tree: a later        *)
(* in-place mutation of a container the call wrote into the target changes *)
(* neither the record's embedded value nor the rhs tree.                   *)
C27_NoAliasSurvives ==
  [][MutateWritten => (differences' = differences /\ rhsIn' = rhsIn)]_vars

----------------------------------------------------------------------------
(* Soundness of an absent result *)

(* how deep two values are compared; deeper than any input before it       *)
(* repeats                                                                 *)
UnfoldDepth == 6

RECURSIVE SameUpTo(_, _, _, _, _)
(* the values l of root L and r of root R are deep-equal down to n levels, *)
(* back edges followed: same types, same key sets, same lengths, equal     *)
(* leaves                                                                  *)
SameUpTo(L, R, l, r, n) ==
  IF n = 0 THEN TRUE
  ELSE IF l.val.t # r.val.t THEN FALSE
  ELSE CASE l.val.t = "array" ->
              /\ Len(l.val.v) = Len(r.val.v)
              /\ \A i \in 1..Len(l.val.v) :
                    SameUpTo(L, R, Child(L, l.loc, Idx(i - 1)), Child(R, r.loc, Idx(i - 1)), n - 1)
         [] l.val.t = "object" ->
              /\ KeysOf(l.val) = KeysOf(r.val)
              /\ \A k \in KeysOf(l.val) :
                    SameUpTo(L, R, Child(L, l.loc, Key(k)), Child(R, r.loc, Key(k)), n - 1)
         [] OTHER -> l.val = r.val

(* C28: for every pair of value trees, cyclic or not, an absent result of  *)
(* diff means the two are deep-equal: same key sets, same sequence         *)
(* lengths, equal leaves at every path.                                    *)
C28_AbsentMeansEqual ==
  (pc = "diffed" /\ ~differences.has) =>
    SameUpTo(lhsIn, rhsIn, Arg(lhsIn, <<>>), Arg(rhsIn, <<>>), UnfoldDepth)

----------------------------------------------------------------------------
(* applyChange followed by revertChange *)

(* the record can be applied to t: an Edit or a Removed record finds its   *)
(* original value at the path, an Added record finds the key absent in an  *)
(* existing mapping, an insertion has 0 <= index <= length, a deletion     *)
(* has 0 <= index < length and finds its original value at the index       *)
Applicable(t, d) ==
  /\ assertValidChange(d) = "none"
  /\ ~RootLevel(d)
  /\ LET path == d.path.val
         holder == At(t, SubSeq(path, 1, Len(path) - 1))
         here == At(t, path)
     IN CASE d.kind \in {"E", "D"} -> here.t # "undefined" /\ here = d.lhs
          [] d.kind = "N" -> holder.t = "object" /\ here.t = "undefined"
          [] d.kind = "A" ->
               /\ here.t = "array"
               /\ IF d.item.kind = "N" THEN d.index <= Len(here.v)
                  ELSE d.index < Len(here.v) /\ here.v[d.index + 1] = d.item.lhs
          [] OTHER -> FALSE

(* C29: for every record with a non-empty path and every target on which  *)
(* the record is applicable, applyChange followed by revertChange with the *)
(* same record leaves the target deep-equal to what it was.                *)
C29_ApplyThenRevert ==
  (pc \in {"roundTripped", "roundTripFailed"} /\ Applicable(lhsIn, TheChange)) =>
    (pc = "roundTripped" /\ DeepEqual(target, lhsIn))

----------------------------------------------------------------------------
(* Removing an element of a sequence *)

(* a single call that removes an element: applyChange with a deletion or   *)
(* revertChange with an insertion, at a path that leads to a sequence      *)
RemovalDone ==
  /\ pc \in {"changeApplied", "changeReverted"}
  /\ TheChange.kind = "A"
  /\ TheChange.item.kind = (IF pc = "changeApplied" THEN "D" ELSE "N")
  /\ Addressed(lhsIn, TheChange).t = "array"

(* C30: removing the element at index i of a sequence of length n leaves   *)
(* the sequence without that element, the others in their order, when      *)
(* 0 <= i < n, and leaves the sequence as it was, no longer and without    *)
(* holes, when i >= n.                                                     *)
C30_RemovalNeverGrows ==
  RemovalDone =>
    LET before == Addressed(lhsIn, TheChange)
        after == Addressed(target, TheChange)
        i == TheChange.index
    IN /\ i < Len(before.v) => after = Arr(RemoveAt(before.v, i))
       /\ i >= Len(before.v) => after = before

====
